---- MODULE Spec2Model ----
(***************************************************************************)
(* EnhancedWiFiMonitor (src/enhanced_wifi_monitor.py): the disconnect and  *)
(* signal history stores, the threat scorer, the four pattern detectors    *)
(* and the monitor loop that drives them.                                  *)
(*                                                                         *)
(* Time is the wall clock in whole seconds since a local midnight.  One    *)
(* loop iteration is one step: every datetime.now() of one iteration reads *)
(* the same second.  An alert is the record handed to                      *)
(* _emit_security_alert: its reason, its threat score, the SSID it names   *)
(* (None when it names none) and the count its detail text carries.        *)
(***************************************************************************)
EXTENDS Integers, Sequences, FiniteSets, TLC

VARIABLES
    is_monitoring,          \* self.is_monitoring
    pc,                     \* position of the monitor thread: "idle", "init", "loop"; "tick" for a direct tick
    now,                    \* the wall clock, the last value datetime.now() returned
    disconnect_history,     \* self.disconnect_history
    signal_history,         \* self.signal_history
    last_check_time,        \* self.last_check_time
    last_status,            \* the loop's local last_status
    connection_start_time,  \* the loop's local connection_start_time (NoTime for None)
    alerts,                 \* the alerts the most recent step handed to the emitter, in order
    iter,                   \* number of steps taken so far (statuses sampled, or ticks)
    obs,                    \* what the most recent step did (observation only, never read by the program)
    reader,                 \* the call of get_recent_events in progress on another thread
    pending,                \* the loop's local current_status while an iteration is between two steps
    threads,                \* the monitor loop threads started so far, each with its position and locals
    integration,            \* the DeauthDetectionIntegration and its NotificationManager
    windows                 \* the WindowsWiFiMonitor

vars == <<is_monitoring, pc, now, disconnect_history, signal_history,
          last_check_time, last_status, connection_start_time, alerts, iter, obs,
          reader, pending, threads, integration, windows>>

-----------------------------------------------------------------------------
(* Bounds of the model *)

MaxIter == 4            \* statuses sampled in one run of Spec (first samples and loop iterations)
MaxFaultAt == 1         \* a fault may hit the 1st .. MaxFaultAt-th emission of an iteration
MaxEvents == 6          \* disconnect events in a store drawn by SpecTick
MaxSamples == 11        \* signal samples in a store drawn by SpecTick
MaxTicks == 2           \* ticks of one run of SpecTick

(* Program constants *)

rapid_disconnect_threshold == 3
suspicious_window_minutes == 5
signal_drop_threshold == 30
minimum_connection_time == 30
pattern_memory_hours == 24
NoTime == -1            \* connection_start_time = None
None == "<None>"        \* an absent SSID

-----------------------------------------------------------------------------
(* Arithmetic helpers *)

Min(a, b) == IF a < b THEN a ELSE b

Abs(a) == IF a < 0 THEN 0 - a ELSE a

RECURSIVE SumSeq(_)
SumSeq(s) == IF s = <<>> THEN 0 ELSE Head(s) + SumSeq(Tail(s))

MaxOfSeq(s) == CHOOSE x \in {s[i] : i \in DOMAIN s} : \A j \in DOMAIN s : s[j] <= x

MinOfSeq(s) == CHOOSE x \in {s[i] : i \in DOMAIN s} : \A j \in DOMAIN s : s[j] >= x

\* the hour of a 12-hour clock
Hour_of_twelve(t) == (t \div 3600) % 12

\* datetime.hour of a clock value
Hour(t) == (t \div 3600) % 24

\* timedelta.seconds: the seconds component of a non-negative difference, days dropped
TimedeltaSeconds(d) == d % 86400

\* The distinct values of f over s, in order of first occurrence (a dict's key order)
RECURSIVE KeysInOrder(_, _)
KeysInOrder(s, seen) ==
    IF s = <<>> THEN <<>>
    ELSE IF Head(s) \in seen THEN KeysInOrder(Tail(s), seen)
    ELSE <<Head(s)>> \o KeysInOrder(Tail(s), seen \cup {Head(s)})

-----------------------------------------------------------------------------
(* Statuses, store entries, alerts *)

_get_default_status == [connected |-> FALSE, ssid |-> None, signal |-> 0]

Alert(reason, score, ssid, n) ==
    [reason |-> reason, threat_score |-> score, ssid |-> ssid, n |-> n]

\* The monitor's memory while one step runs: the stores, the loop's locals, the
\* alerts emitted so far, and the fault of this step (k: the emission that raises,
\* 0 for none; failed: the exception is propagating to the loop's except clause).
\* appended, inserted, dpruned, spruned record what the step did to the stores.
Memory(dh, sh, cst, lct, ls, k) ==
    [dh |-> dh, sh |-> sh, cst |-> cst, lct |-> lct, ls |-> ls,
     out |-> <<>>, n |-> 0, k |-> k, failed |-> FALSE,
     appended |-> 0, inserted |-> 0, dpruned |-> FALSE, spruned |-> FALSE,
     ticked |-> FALSE, h0 |-> <<>>, s0 |-> <<>>]

\* _emit_security_alert: hands the alert to the subscribers; the emission numbered
\* m.k raises instead, and nothing after it in the step runs.
_emit_security_alert(m, a) ==
    IF m.failed THEN m
    ELSE IF m.n + 1 = m.k THEN [m EXCEPT !.failed = TRUE]
    ELSE [m EXCEPT !.out = Append(@, a), !.n = @ + 1]

RECURSIVE EmitAll(_, _)
EmitAll(m, as) ==
    IF as = <<>> THEN m ELSE EmitAll(_emit_security_alert(m, Head(as)), Tail(as))

-----------------------------------------------------------------------------
(* Signal History Store *)

prune_signal_history_off(sh, t) == sh

prune_signal_history(sh, t) ==
    SelectSeq(sh, LAMBDA s : s.timestamp > t - 3600)

\* the test on the signal left out: a connected sample of signal 0 is tracked too
_track_signal_changes_any_signal(m, current_status, t) ==
    IF ~current_status.connected THEN m
    ELSE LET signal_entry == [timestamp |-> t, ssid |-> current_status.ssid,
                              signal |-> current_status.signal]
             added == Append(m.sh, signal_entry)
             kept == prune_signal_history(added, t)
         IN [m EXCEPT !.sh = kept, !.inserted = @ + 1,
                      !.spruned = Len(kept) < Len(added)]

_track_signal_changes(m, current_status, t) ==
    IF ~current_status.connected \/ current_status.signal = 0 THEN m
    ELSE LET signal_entry == [timestamp |-> t, ssid |-> current_status.ssid,
                              signal |-> current_status.signal]
             added == Append(m.sh, signal_entry)
             kept == prune_signal_history(added, t)
         IN [m EXCEPT !.sh = kept, !.inserted = @ + 1,
                      !.spruned = Len(kept) < Len(added)]

-----------------------------------------------------------------------------
(* Threat Scorer *)

\* the window left out: every disconnect remembered counts as recent
_get_recent_disconnects_all(dh, t, minutes) == dh

_get_recent_disconnects(dh, t, minutes) ==
    SelectSeq(dh, LAMBDA d : d.timestamp > t - minutes * 60)

_had_recent_signal_drop(sh, ssid, t) ==
    IF ssid = None THEN FALSE
    ELSE LET recent_signals ==
                 SelectSeq(sh, LAMBDA s : s.timestamp > t - 2 * 60 /\ s.ssid = ssid)
             signals == [i \in DOMAIN recent_signals |-> recent_signals[i].signal]
         IN IF Len(recent_signals) < 5 THEN FALSE
            ELSE (MaxOfSeq(signals) - MinOfSeq(signals)) > signal_drop_threshold

score_cap_off(score) == score

score_cap(score) == Min(score, 10)

_calculate_threat_score(dh, sh, last, connection_duration, t) ==
    LET f1 == IF connection_duration < 30 THEN 6
              ELSE IF connection_duration < 120 THEN 3 ELSE 0
        f2 == IF last.signal > 70 THEN 4
              ELSE IF last.signal > 50 THEN 2 ELSE 0
        recent_disconnects == _get_recent_disconnects(dh, t, 5)
        f3 == IF Len(recent_disconnects) >= 3 THEN 8
              ELSE IF Len(recent_disconnects) >= 2 THEN 5 ELSE 0
        f4 == IF Hour(t) < 6 \/ Hour(t) > 22 THEN 2 ELSE 0
        f5 == IF _had_recent_signal_drop(sh, last.ssid, t) THEN 6 ELSE 0
        recent_same_network == SelectSeq(recent_disconnects, LAMBDA d : d.ssid = last.ssid)
        f6 == IF last.ssid # None /\ Len(recent_same_network) >= 2 THEN 5 ELSE 0
    IN score_cap(f1 + f2 + f3 + f4 + f5 + f6)

-----------------------------------------------------------------------------
(* Disconnect History Store and the immediate alert *)

prune_disconnect_history_off(dh, t) == dh

prune_disconnect_history(dh, t) ==
    SelectSeq(dh, LAMBDA d : d.timestamp > t - pattern_memory_hours * 3600)

\* the high threat threshold of the immediate assessment (line 304)
high_risk_above(threat_score) == threat_score > 7

high_risk(threat_score) == threat_score >= 7

\* the disconnect appended first and scored on the history that holds it
_handle_enhanced_disconnect_append_first(m, last, connection_duration, t) ==
    LET unscored == [timestamp |-> t, ssid |-> last.ssid,
                     last_signal |-> last.signal,
                     connection_duration |-> connection_duration,
                     threat_score |-> 0]
        threat_score == _calculate_threat_score(Append(m.dh, unscored), m.sh, last,
                                                connection_duration, t)
        disconnect_info == [unscored EXCEPT !.threat_score = threat_score]
        added == Append(m.dh, disconnect_info)
        kept == prune_disconnect_history(added, t)
        m1 == [m EXCEPT !.dh = kept, !.appended = @ + 1,
                        !.dpruned = Len(kept) < Len(added)]
    IN IF high_risk(threat_score)
       THEN _emit_security_alert(m1,
                Alert("High-risk disconnect pattern", threat_score, last.ssid, 0))
       ELSE IF connection_duration < minimum_connection_time /\ threat_score >= 5
       THEN _emit_security_alert(m1,
                Alert("Rapid disconnect after brief connection", threat_score, last.ssid, 0))
       ELSE m1

\* the immediate assessment without its brief-connection branch (lines 306-307)
_handle_enhanced_disconnect_high_only(m, last, connection_duration, t) ==
    LET threat_score == _calculate_threat_score(m.dh, m.sh, last, connection_duration, t)
        disconnect_info == [timestamp |-> t, ssid |-> last.ssid,
                            last_signal |-> last.signal,
                            connection_duration |-> connection_duration,
                            threat_score |-> threat_score]
        added == Append(m.dh, disconnect_info)
        kept == prune_disconnect_history(added, t)
        m1 == [m EXCEPT !.dh = kept, !.appended = @ + 1,
                        !.dpruned = Len(kept) < Len(added)]
    IN IF high_risk(threat_score)
       THEN _emit_security_alert(m1,
                Alert("High-risk disconnect pattern", threat_score, last.ssid, 0))
       ELSE m1

_handle_enhanced_disconnect(m, last, connection_duration, t) ==
    LET threat_score == _calculate_threat_score(m.dh, m.sh, last, connection_duration, t)
        disconnect_info == [timestamp |-> t, ssid |-> last.ssid,
                            last_signal |-> last.signal,
                            connection_duration |-> connection_duration,
                            threat_score |-> threat_score]
        added == Append(m.dh, disconnect_info)
        kept == prune_disconnect_history(added, t)
        m1 == [m EXCEPT !.dh = kept, !.appended = @ + 1,
                        !.dpruned = Len(kept) < Len(added)]
    IN IF high_risk(threat_score)
       THEN _emit_security_alert(m1,
                Alert("High-risk disconnect pattern", threat_score, last.ssid, 0))
       ELSE IF connection_duration < minimum_connection_time /\ threat_score >= 5
       THEN _emit_security_alert(m1,
                Alert("Rapid disconnect after brief connection", threat_score, last.ssid, 0))
       ELSE m1

-----------------------------------------------------------------------------
(* Pattern Analyzer *)

\* three points for each event counted instead of two
rapid_score_tripled(count) == Min(count * 3, 10)

rapid_score(count) == Min(count * 2, 10)

\* the clear as the store contract words it: events at or before the cutoff go
rapid_clear_up_to(dh, recent_window) ==
    SelectSeq(dh, LAMBDA d : d.timestamp > recent_window)

\* the clear left out: the detector fires and the history stays as it was
rapid_clear_nothing(dh, recent_window) == dh

\* the store after the Rapid Disconnect detector has fired (line 422)
rapid_clear(dh, recent_window) ==
    SelectSeq(dh, LAMBDA d : d.timestamp <= recent_window)

rapid_fires_above(dh, t) ==
    Len(SelectSeq(dh, LAMBDA d : d.timestamp > t - suspicious_window_minutes * 60))
        > rapid_disconnect_threshold

rapid_fires(dh, t) ==
    Len(SelectSeq(dh, LAMBDA d : d.timestamp > t - suspicious_window_minutes * 60))
        >= rapid_disconnect_threshold

\* the clear moved out of the if: it runs whether or not the detector fired
_analyze_rapid_disconnects_clearing(m, t) ==
    IF m.failed THEN m
    ELSE LET recent_window == t - suspicious_window_minutes * 60
             recent_disconnects == SelectSeq(m.dh, LAMBDA d : d.timestamp > recent_window)
             m1 == IF rapid_fires(m.dh, t)
                   THEN _emit_security_alert(m,
                            Alert("Rapid disconnect pattern detected",
                                  rapid_score(Len(recent_disconnects)), None,
                                  Len(recent_disconnects)))
                   ELSE m
         IN IF m1.failed THEN m1
            ELSE [m1 EXCEPT !.dh = rapid_clear(m.dh, recent_window)]

_analyze_rapid_disconnects(m, t) ==
    IF m.failed THEN m
    ELSE LET recent_window == t - suspicious_window_minutes * 60
             recent_disconnects == SelectSeq(m.dh, LAMBDA d : d.timestamp > recent_window)
         IN IF rapid_fires(m.dh, t)
            THEN LET m1 == _emit_security_alert(m,
                               Alert("Rapid disconnect pattern detected",
                                     rapid_score(Len(recent_disconnects)), None,
                                     Len(recent_disconnects)))
                 IN IF m1.failed THEN m1
                    ELSE [m1 EXCEPT !.dh = rapid_clear(m.dh, recent_window)]
            ELSE m

\* the test on the average interval left out
temporal_regular_any_pace(intervals) ==
    LET n == Len(intervals)
        total == SumSeq(intervals)
        deviations == [i \in DOMAIN intervals |-> Abs(n * intervals[i] - total)]
    IN SumSeq(deviations) < 30 * n * n

\* avg_deviation < 30 and avg_interval < 600 over the intervals, both sides
\* multiplied by the number of intervals (squared for the deviation)
temporal_regular(intervals) ==
    LET n == Len(intervals)
        total == SumSeq(intervals)
        deviations == [i \in DOMAIN intervals |-> Abs(n * intervals[i] - total)]
    IN SumSeq(deviations) < 30 * n * n /\ total < 600 * n

\* the detector made to consume what it measured: when it fires, the events of
\* the trailing 2 hours leave the history
_analyze_temporal_patterns_consuming(m, t) ==
    IF m.failed THEN m
    ELSE LET recent_hours == t - 2 * 3600
             recent_disconnects == SelectSeq(m.dh, LAMBDA d : d.timestamp > recent_hours)
             intervals == [i \in 1..(Len(recent_disconnects) - 1) |->
                              recent_disconnects[i + 1].timestamp
                                  - recent_disconnects[i].timestamp]
         IN IF Len(recent_disconnects) >= 4 /\ Len(intervals) >= 3
               /\ temporal_regular(intervals)
            THEN [_emit_security_alert(m,
                      Alert("Automated attack pattern detected", 8, None, 0))
                  EXCEPT !.dh = SelectSeq(m.dh, LAMBDA d : d.timestamp <= recent_hours)]
            ELSE m

_analyze_temporal_patterns(m, t) ==
    IF m.failed THEN m
    ELSE LET recent_hours == t - 2 * 3600
             recent_disconnects == SelectSeq(m.dh, LAMBDA d : d.timestamp > recent_hours)
             intervals == [i \in 1..(Len(recent_disconnects) - 1) |->
                              recent_disconnects[i + 1].timestamp
                                  - recent_disconnects[i].timestamp]
         IN IF Len(recent_disconnects) >= 4 /\ Len(intervals) >= 3
               /\ temporal_regular(intervals)
            THEN _emit_security_alert(m,
                     Alert("Automated attack pattern detected", 8, None, 0))
            ELSE m

\* the counting left to every SSID but the placeholder: an absent SSID counts too
network_counted_absent(ssid) == ssid # "Unknown"

network_counted(ssid) == ssid # None /\ ssid # "Unknown"

network_excessive_above(count) == count > 3

network_excessive(count) == count >= 3

_analyze_network_targeting(m, t) ==
    IF m.failed THEN m
    ELSE LET recent_hours == t - 1 * 3600
             recent_disconnects == SelectSeq(m.dh, LAMBDA d : d.timestamp > recent_hours)
             counted == SelectSeq(recent_disconnects, LAMBDA d : network_counted(d.ssid))
             ssids == KeysInOrder([i \in DOMAIN counted |-> counted[i].ssid], {})
             count(ssid) == Len(SelectSeq(counted, LAMBDA d : d.ssid = ssid))
             hits == SelectSeq(ssids, LAMBDA ssid : network_excessive(count(ssid)))
         IN EmitAll(m, [i \in DOMAIN hits |->
                           Alert("Network targeting detected", 7, hits[i], count(hits[i]))])

\* _calculate_variance(values) > 400 and sum(values)/len(values) < 50, the
\* variance sum((x - mean)^2)/n taken times n^3 and the mean times n
signal_volatile_at_most(signals) ==
    LET n == Len(signals)
        total == SumSeq(signals)
        squared_diffs == [i \in DOMAIN signals |->
                             (n * signals[i] - total) * (n * signals[i] - total)]
    IN (IF n < 2 THEN 0 ELSE SumSeq(squared_diffs)) > 400 * n * n * n
       /\ total <= 50 * n

signal_volatile(signals) ==
    LET n == Len(signals)
        total == SumSeq(signals)
        squared_diffs == [i \in DOMAIN signals |->
                             (n * signals[i] - total) * (n * signals[i] - total)]
    IN (IF n < 2 THEN 0 ELSE SumSeq(squared_diffs)) > 400 * n * n * n
       /\ total < 50 * n

_analyze_signal_based_attacks(m, t) ==
    IF m.failed THEN m
    ELSE LET recent_minutes == t - 10 * 60
             recent_signals == SelectSeq(m.sh, LAMBDA s : s.timestamp > recent_minutes)
             named == SelectSeq(recent_signals, LAMBDA s : s.ssid # None)
             ssids == KeysInOrder([i \in DOMAIN named |-> named[i].ssid], {})
             of(ssid) == LET mine == SelectSeq(named, LAMBDA s : s.ssid = ssid)
                         IN [i \in DOMAIN mine |-> mine[i].signal]
             hits == SelectSeq(ssids, LAMBDA ssid :
                         Len(of(ssid)) >= 10 /\ signal_volatile(of(ssid)))
         IN IF Len(recent_signals) < 10 THEN m
            ELSE EmitAll(m, [i \in DOMAIN hits |->
                                Alert("Signal interference detected", 6, hits[i], 0)])

\* the gate left open: the detectors run on any history
analysis_runs_ungated(dh) == TRUE

\* the gate of _enhanced_pattern_analysis (lines 388-389)
analysis_runs(dh) == ~(Len(dh) < 2)

\* the signal analysis moved to the front of the four
_enhanced_pattern_analysis_signal_first(m, t) ==
    LET m0 == [m EXCEPT !.ticked = TRUE, !.h0 = m.dh, !.s0 = m.sh]
    IN IF m.failed THEN m
       ELSE IF ~analysis_runs(m.dh) THEN m0
       ELSE _analyze_network_targeting(
                _analyze_temporal_patterns(
                    _analyze_rapid_disconnects(
                        _analyze_signal_based_attacks(m0, t), t), t), t)

_enhanced_pattern_analysis(m, t) ==
    LET m0 == [m EXCEPT !.ticked = TRUE, !.h0 = m.dh, !.s0 = m.sh]
    IN IF m.failed THEN m
       ELSE IF ~analysis_runs(m.dh) THEN m0
       ELSE _analyze_signal_based_attacks(
                _analyze_network_targeting(
                    _analyze_temporal_patterns(
                        _analyze_rapid_disconnects(m0, t), t), t), t)

-----------------------------------------------------------------------------
(* The monitor loop *)

\* Inputs of Spec: the statuses _get_enhanced_wifi_status may return, the seconds
\* that pass between two clock readings of the loop (1: the sleep alone; 20: past
\* the 15 s analysis period; 90000: past the 1 h signal window and the 24 h
\* memory, as after a suspend), and the clock at construction (05:59:50).
Statuses ==
    {_get_default_status,
     [connected |-> TRUE, ssid |-> "Office", signal |-> 80],
     [connected |-> TRUE, ssid |-> "Office", signal |-> 0],
     [connected |-> TRUE, ssid |-> None, signal |-> 80]}

Steps == {1, 20, 90000}

StartClocks == {5 * 3600 + 3590}

\* The thread that calls get_recent_events: its position ("idle", "begun" after
\* line 532, "reading" inside the for loop, "done"), its locals (the clock it read,
\* the events collected, the number of entries visited), the list object it
\* iterates (attached: still the object self.disconnect_history names; list: its
\* entries once the attribute names another object) and the value returned.
\* whole is observation only: the states of the disconnect history between whole
\* operations since the call began.
NoReader ==
    [pc |-> "idle", clock |-> 0, attached |-> FALSE, list |-> <<>>, i |-> 0,
     events |-> <<>>, result |-> <<>>, whole |-> {}]

\* no monitor loop thread has been started
NoThreads == <<>>

\* DeauthDetectionIntegration.__init__ and NotificationManager.__init__: enabled
\* is enable_notifications and PLYER_AVAILABLE.  sent (the new-attacker
\* notifications handed to notification.notify since the last reset, with whether
\* notify returned or raised), detected (the attacker of every call since the last
\* reset), called (the callbacks the most recent call invoked, in order), calls
\* and toggles (calls of on_deauth_detected and of set_notifications_enabled so
\* far), muted (the most recent call found notifications disabled) are
\* observation only.
DeauthDetectionIntegration(enable_notifications, plyer_available) ==
    [plyer_available |-> plyer_available,
     enabled |-> enable_notifications /\ plyer_available,
     known_attackers |-> {}, attack_count |-> 0, detection_callbacks |-> <<>>,
     sent |-> <<>>, detected |-> <<>>, called |-> <<>>, muted |-> FALSE,
     calls |-> 0, toggles |-> 0]

NoIntegration == DeauthDetectionIntegration(TRUE, TRUE)

\* WindowsWiFiMonitor.__init__.  events (the list the most recent
\* get_recent_events returned), clock (the clock it read), h0 (the history when it
\* was called) and step are observation only.
NoWindows ==
    [disconnect_history |-> <<>>, events |-> <<>>, clock |-> 0, h0 |-> <<>>,
     step |-> "none"]

NoObs ==
    [step |-> "none", time |-> 0, prev |-> _get_default_status,
     sample |-> _get_default_status, appended |-> 0, inserted |-> 0,
     dpruned |-> FALSE, spruned |-> FALSE, faulted |-> FALSE,
     ticked |-> FALSE, h0 |-> <<>>, s0 |-> <<>>, after_rapid |-> FALSE,
     stopped |-> FALSE]

Observe(step, t, sample, m) ==
    [step |-> step, time |-> t, prev |-> obs.sample, sample |-> sample,
     appended |-> m.appended, inserted |-> m.inserted,
     dpruned |-> m.dpruned, spruned |-> m.spruned, faulted |-> m.failed,
     ticked |-> m.ticked, h0 |-> m.h0, s0 |-> m.s0,
     after_rapid |-> \E i \in DOMAIN alerts :
                        alerts[i].reason = "Rapid disconnect pattern detected",
     stopped |-> ~is_monitoring]

\* __init__
Init ==
    /\ is_monitoring = FALSE
    /\ pc = "idle"
    /\ now \in StartClocks
    /\ disconnect_history = <<>>
    /\ signal_history = <<>>
    /\ last_check_time = now
    /\ last_status = _get_default_status
    /\ connection_start_time = NoTime
    /\ alerts = <<>>
    /\ iter = 0
    /\ obs = NoObs
    /\ reader = NoReader
    /\ pending = _get_default_status
    /\ threads = NoThreads
    /\ integration = NoIntegration
    /\ windows = NoWindows

\* start_monitoring, with no monitor thread of an earlier start still alive
start_monitoring ==
    /\ ~is_monitoring
    /\ pc = "idle"
    /\ iter < MaxIter
    /\ is_monitoring' = TRUE
    /\ pc' = "init"
    /\ UNCHANGED <<now, disconnect_history, signal_history, last_check_time,
                   last_status, connection_start_time, alerts, iter, obs, reader, pending,
                   threads, integration, windows>>

stop_monitoring ==
    /\ is_monitoring' = FALSE
    /\ UNCHANGED <<pc, now, disconnect_history, signal_history, last_check_time,
                   last_status, connection_start_time, alerts, iter, obs, reader, pending,
                   threads, integration, windows>>

\* _enhanced_monitor_loop, lines 83-84: the first sample, taken before the loop
LoopBegin ==
    /\ pc = "init"
    /\ iter < MaxIter
    /\ \E status \in Statuses :
          /\ last_status' = status
          /\ connection_start_time' = IF status.connected THEN now ELSE NoTime
          /\ obs' = [NoObs EXCEPT !.step = "begin", !.time = now, !.sample = status]
    /\ pc' = "loop"
    /\ iter' = iter + 1
    /\ UNCHANGED <<is_monitoring, now, disconnect_history, signal_history,
                   last_check_time, alerts, reader, pending,
                   threads, integration, windows>>

\* lines 95-102: the connected -> disconnected and disconnected -> connected edges
detect_edges(m, current_status, t) ==
    IF m.failed THEN m
    ELSE IF m.ls.connected /\ ~current_status.connected
    THEN LET connection_duration == IF m.cst # NoTime THEN t - m.cst ELSE 0
             h == _handle_enhanced_disconnect(m, m.ls, connection_duration, t)
         IN IF h.failed THEN h ELSE [h EXCEPT !.cst = NoTime]
    ELSE IF current_status.connected /\ ~m.ls.connected
    THEN [m EXCEPT !.cst = t]
    ELSE m

\* lines 104-107: the periodic pattern analysis
analysis_due(lct, t) == TimedeltaSeconds(t - lct) >= 15

periodic_analysis(m, t) ==
    IF m.failed THEN m
    ELSE IF analysis_due(m.lct, t)
    THEN LET p == _enhanced_pattern_analysis(m, t)
         IN IF p.failed THEN p ELSE [p EXCEPT !.lct = t]
    ELSE m

\* line 109, skipped when an exception left the try block
remember_status(m, current_status) ==
    IF m.failed THEN m ELSE [m EXCEPT !.ls = current_status]

\* one pass of the while body, lines 87-113: dt seconds after the last clock
\* reading the status is sampled; the k-th alert emission raises (k = 0: none),
\* which the except clause answers with a 5 s sleep
loop_body(m, current_status, t) ==
    remember_status(
        periodic_analysis(
            detect_edges(
                IF current_status.connected
                THEN _track_signal_changes(m, current_status, t) ELSE m,
                current_status, t),
            t),
        current_status)

LoopIter ==
    /\ pc = "loop"
    /\ is_monitoring
    /\ iter < MaxIter
    /\ \E dt \in Steps, current_status \in Statuses, k \in 0..MaxFaultAt :
          LET t == now + dt
              m == loop_body(Memory(disconnect_history, signal_history,
                                    connection_start_time, last_check_time,
                                    last_status, k),
                             current_status, t)
          IN /\ now' = IF m.failed THEN t + 5 ELSE t
             /\ disconnect_history' = m.dh
             /\ signal_history' = m.sh
             /\ last_check_time' = m.lct
             /\ last_status' = m.ls
             /\ connection_start_time' = m.cst
             /\ alerts' = m.out
             /\ obs' = Observe("iter", t, current_status, m)
    /\ iter' = iter + 1
    /\ UNCHANGED <<is_monitoring, pc, reader, pending, threads, integration, windows>>

\* line 86: the while condition read false
LoopExit ==
    /\ pc = "loop"
    /\ ~is_monitoring
    /\ pc' = "idle"
    /\ UNCHANGED <<is_monitoring, now, disconnect_history, signal_history,
                   last_check_time, last_status, connection_start_time, alerts,
                   iter, obs, reader, pending, threads, integration, windows>>

Next ==
    \/ start_monitoring
    \/ stop_monitoring
    \/ LoopBegin
    \/ LoopIter
    \/ LoopExit

Spec == Init /\ [][Next]_vars

-----------------------------------------------------------------------------
(* A tick on stores the monitor has recorded                                *)
(*                                                                          *)
(* SpecTick starts from stores built by the monitor's own record steps      *)
(* (_handle_enhanced_disconnect for each disconnect, _track_signal_changes  *)
(* for each sample) and applies _enhanced_pattern_analysis to them, first   *)
(* at TickClock and then every 15 s.  No emission raises here.              *)

TickClock == 14 * 3600

Skip == "<skip>"

\* seconds before TickClock at which a disconnect may have been recorded
CountAges == <<7200, 3600, 900, 600, 300, 250, 200, 150, 100, 50, 0>>
NetworkAges == <<3000, 2400, 1800, 1200, 200, 0>>
SignalCaseAges == <<205, 105, 45>>
\* disconnects every 300 s, disconnects 50, 900, 120 and 700 s apart, and
\* disconnects 300, 300, 300 and 380 s apart (mean deviation exactly 30 s)
TemporalAges == <<1770, 1720, 1200, 900, 820, 700, 600, 300, 0>>
TemporalEdgeAges == <<1280, 980, 680, 380, 0>>

\* (connection duration, last signal) of the disconnects of one store
Profiles == {[duration |-> 10, signal |-> 80], [duration |-> 1800, signal |-> 20]}

\* signal percentages sampled in turn, SSIDs sampled in turn, seconds between samples
SignalPatterns == {<<10, 90>>, <<10, 80>>, <<30, 60>>, <<40>>}
SsidPatterns == {<<"Cafe">>, <<"Cafe", "Office">>, <<None>>}
Spacings == {1, 60, 70}

Cyclic(pattern, i) == pattern[((i - 1) % Len(pattern)) + 1]

\* the disconnect history after a disconnect of choice[i] was recorded at
\* TickClock - ages[i], for every i from i0 on that is not skipped
RECURSIVE RecordFrom(_, _, _, _, _)
RecordFrom(i0, dh, ages, choice, profile) ==
    IF i0 > Len(ages) THEN dh
    ELSE IF choice[i0] = Skip THEN RecordFrom(i0 + 1, dh, ages, choice, profile)
    ELSE LET t == TickClock - ages[i0]
             gap == IF dh = <<>> THEN profile.duration + 1
                    ELSE t - dh[Len(dh)].timestamp
             last == [connected |-> TRUE, ssid |-> choice[i0], signal |-> profile.signal]
             m == _handle_enhanced_disconnect(
                      Memory(dh, <<>>, NoTime, 0, last, 0), last,
                      Min(profile.duration, gap - 1), t)
         IN RecordFrom(i0 + 1, m.dh, ages, choice, profile)

\* the signal history after n samples were tracked, the last one at TickClock
RECURSIVE TrackFrom(_, _, _, _, _, _)
TrackFrom(i0, sh, n, signals, ssids, spacing) ==
    IF i0 > n THEN sh
    ELSE LET status == [connected |-> TRUE, ssid |-> Cyclic(ssids, i0),
                        signal |-> Cyclic(signals, i0)]
             m == _track_signal_changes(
                      Memory(<<>>, sh, NoTime, 0, status, 0), status,
                      TickClock - (n - i0) * spacing)
         IN TrackFrom(i0 + 1, m.sh, n, signals, ssids, spacing)

Chosen(choice) == Cardinality({i \in DOMAIN choice : choice[i] # Skip})

\* the stores drawn: they exercise the counts, the SSIDs and the signal samples in turn
DrawStores ==
    \/ \E choice \in [DOMAIN CountAges -> {Skip, "Office"}], profile \in Profiles :
          /\ Chosen(choice) <= MaxEvents
          /\ disconnect_history = RecordFrom(1, <<>>, CountAges, choice, profile)
          /\ signal_history = <<>>
    \/ \E choice \in [DOMAIN CountAges -> {Skip, "Unknown"}] :
          /\ Chosen(choice) <= MaxEvents
          /\ disconnect_history =
                 RecordFrom(1, <<>>, CountAges, choice, [duration |-> 10, signal |-> 80])
          /\ signal_history = <<>>
    \/ \E choice \in [DOMAIN NetworkAges -> {Skip, "Office", "Cafe", None}] :
          /\ Chosen(choice) <= MaxEvents
          /\ disconnect_history =
                 RecordFrom(1, <<>>, NetworkAges, choice, [duration |-> 10, signal |-> 80])
          /\ signal_history = <<>>
    \/ \E ages \in {TemporalAges, TemporalEdgeAges} :
          \E choice \in [DOMAIN ages -> {Skip, "Office"}] :
             /\ Chosen(choice) <= MaxEvents
             /\ disconnect_history =
                    RecordFrom(1, <<>>, ages, choice, [duration |-> 10, signal |-> 80])
             /\ signal_history = <<>>
    \/ \E choice \in [DOMAIN SignalCaseAges -> {Skip, "Office"}],
          n \in 0..MaxSamples, signals \in SignalPatterns, ssids \in SsidPatterns,
          spacing \in Spacings :
          /\ disconnect_history =
                 RecordFrom(1, <<>>, SignalCaseAges, choice, [duration |-> 10, signal |-> 80])
          /\ signal_history = TrackFrom(1, <<>>, n, signals, ssids, spacing)

InitTick ==
    /\ is_monitoring = FALSE
    /\ pc = "tick"
    /\ now = TickClock
    /\ DrawStores
    /\ last_check_time = TickClock - 15
    /\ last_status = _get_default_status
    /\ connection_start_time = NoTime
    /\ alerts = <<>>
    /\ iter = 0
    /\ obs = NoObs
    /\ reader = NoReader
    /\ pending = _get_default_status
    /\ threads = NoThreads
    /\ integration = NoIntegration
    /\ windows = NoWindows

\* _enhanced_pattern_analysis, called at the clock of the store and then 15 s
\* after each call
Tick ==
    /\ pc = "tick"
    /\ iter < MaxTicks
    /\ LET t == IF iter = 0 THEN now ELSE now + 15
           m == _enhanced_pattern_analysis(
                    Memory(disconnect_history, signal_history, connection_start_time,
                           last_check_time, last_status, 0), t)
       IN /\ now' = t
          /\ disconnect_history' = m.dh
          /\ signal_history' = m.sh
          /\ last_check_time' = t
          /\ alerts' = m.out
          /\ obs' = Observe("tick", t, _get_default_status, m)
    /\ iter' = iter + 1
    /\ UNCHANGED <<is_monitoring, pc, last_status, connection_start_time, reader, pending,
                   threads, integration, windows>>

NextTick == Tick

SpecTick == InitTick /\ [][NextTick]_vars

-----------------------------------------------------------------------------
(* One disconnect scored on stores the monitor has recorded                 *)
(*                                                                          *)
(* SpecScore starts where the loop has sampled a connected status and the   *)
(* stores hold what earlier record steps left, and applies the              *)
(* connected -> disconnected branch of the loop (lines 96-99) once: the     *)
(* disconnect is scored, appended and assessed.  No emission raises here.   *)

MaxDropSamples == 6     \* signal samples in a store drawn by SpecScore

\* clocks of the scored disconnect: 10 s before, 10 s after and 40 s after 06:00,
\* 14:00 and 23:00
ScoreEpochs == {6 * 3600, 14 * 3600, 23 * 3600}
ScoreOffsets == {0 - 10, 10, 40}

\* seconds before the epoch at which earlier disconnects may have been recorded
ScoreAges == <<500, 310, 280, 200, 100>>
NoSsidAges == <<280, 200, 100>>

\* connection durations, last signals and SSIDs of the scored disconnect
Durations == {10, 29, 30, 119, 120, 1800}
LastSignals == {20, 50, 51, 70, 71}
LastSsids == {"Office", "Cafe", None}

\* signal percentages sampled in turn before the disconnect, seconds between samples
DropPatterns == {<<90, 20>>, <<20, 90>>, <<60, 40>>, <<80, 50>>, <<81, 50>>,
                 <<20, 40, 60, 80, 90>>}
DropSsidPatterns == {<<"Office">>, <<"Office", "Cafe">>}
DropSpacings == {1, 25, 40}

\* the disconnect history after a disconnect of choice[i] was recorded at
\* base - ages[i], for every i from i0 on that is not skipped
RECURSIVE RecordBefore(_, _, _, _, _)
RecordBefore(base, i0, dh, ages, choice) ==
    IF i0 > Len(ages) THEN dh
    ELSE IF choice[i0] = Skip THEN RecordBefore(base, i0 + 1, dh, ages, choice)
    ELSE LET t == base - ages[i0]
             gap == IF dh = <<>> THEN 1801 ELSE t - dh[Len(dh)].timestamp
             last == [connected |-> TRUE, ssid |-> choice[i0], signal |-> 20]
             m == _handle_enhanced_disconnect(
                      Memory(dh, <<>>, NoTime, 0, last, 0), last,
                      Min(1800, gap - 1), t)
         IN RecordBefore(base, i0 + 1, m.dh, ages, choice)

\* the signal history after n samples were tracked, the last one 1 s before base
RECURSIVE TrackBefore(_, _, _, _, _, _, _)
TrackBefore(base, i0, sh, n, signals, ssids, spacing) ==
    IF i0 > n THEN sh
    ELSE LET status == [connected |-> TRUE, ssid |-> Cyclic(ssids, i0),
                        signal |-> Cyclic(signals, i0)]
             m == _track_signal_changes(
                      Memory(<<>>, sh, NoTime, 0, status, 0), status,
                      base - 1 - (n - i0) * spacing)
         IN TrackBefore(base, i0 + 1, m.sh, n, signals, ssids, spacing)

ScoreCall(t, dh, sh, ssid, signal, duration) ==
    [t |-> t, dh |-> dh, sh |-> sh,
     last |-> [connected |-> TRUE, ssid |-> ssid, signal |-> signal],
     duration |-> duration]

\* the calls drawn: they exercise the scored disconnect, the disconnect history
\* and the signal history in turn
EventCalls ==
    {ScoreCall(t, <<>>, <<>>, ssid, signal, duration) :
        t \in {6 * 3600 - 10, 14 * 3600 + 10, 23 * 3600 + 10},
        ssid \in {"Office", None}, signal \in LastSignals, duration \in Durations}

HistoryCalls ==
    {ScoreCall(epoch + offset, RecordBefore(epoch, 1, <<>>, ScoreAges, choice), <<>>,
               ssid, 20, duration) :
        epoch \in ScoreEpochs, offset \in ScoreOffsets,
        choice \in [DOMAIN ScoreAges -> {Skip, "Office"}],
        ssid \in LastSsids, duration \in {10, 1800}}

NoSsidCalls ==
    {ScoreCall(14 * 3600 + offset, RecordBefore(14 * 3600, 1, <<>>, NoSsidAges, choice),
               <<>>, ssid, 20, 1800) :
        offset \in ScoreOffsets,
        choice \in [DOMAIN NoSsidAges -> {Skip, None}], ssid \in LastSsids}

SignalCalls ==
    {ScoreCall(14 * 3600 + 10, <<>>,
               TrackBefore(14 * 3600 + 10, 1, <<>>, n, signals, ssids, spacing),
               ssid, 20, 1800) :
        n \in 0..MaxDropSamples, signals \in DropPatterns,
        ssids \in DropSsidPatterns, spacing \in DropSpacings, ssid \in LastSsids}

\* calls on disconnects and signal samples that carry no SSID
NoSsidDropCalls ==
    {ScoreCall(14 * 3600 + 10, RecordBefore(14 * 3600, 1, <<>>, NoSsidAges, choice),
               TrackBefore(14 * 3600 + 10, 1, <<>>, MaxDropSamples, <<90, 20>>,
                           <<None>>, 1),
               ssid, 20, 1800) :
        choice \in [DOMAIN NoSsidAges -> {Skip, None}], ssid \in LastSsids}

ScoreCalls ==
    EventCalls \cup HistoryCalls \cup NoSsidCalls \cup SignalCalls \cup NoSsidDropCalls

InitScore ==
    /\ is_monitoring = TRUE
    /\ pc = "score"
    /\ \E c \in ScoreCalls :
          /\ now = c.t
          /\ disconnect_history = c.dh
          /\ signal_history = c.sh
          /\ last_status = c.last
          /\ connection_start_time = c.t - c.duration
    /\ last_check_time = now
    /\ alerts = <<>>
    /\ iter = 0
    /\ obs = NoObs
    /\ reader = NoReader
    /\ pending = _get_default_status
    /\ threads = NoThreads
    /\ integration = NoIntegration
    /\ windows = NoWindows

\* lines 96-99 on a sample that is disconnected, read at the clock of the state
Score ==
    /\ pc = "score"
    /\ LET m == detect_edges(
                    Memory(disconnect_history, signal_history, connection_start_time,
                           last_check_time, last_status, 0),
                    _get_default_status, now)
       IN /\ disconnect_history' = m.dh
          /\ signal_history' = m.sh
          /\ connection_start_time' = m.cst
          /\ alerts' = m.out
          /\ obs' = [Observe("score", now, _get_default_status, m) EXCEPT
                        !.prev = last_status,
                        !.h0 = disconnect_history, !.s0 = signal_history]
    /\ pc' = "scored"
    /\ iter' = iter + 1
    /\ UNCHANGED <<is_monitoring, now, last_check_time, last_status, reader, pending,
                   threads, integration, windows>>

NextScore == Score

SpecScore == InitScore /\ [][NextScore]_vars

\* the iteration after the one that scored the disconnect, 15 s later: the status
\* is still disconnected (last_status was set to it, line 109) and the pattern
\* analysis is due
Follow ==
    /\ pc = "scored"
    /\ LET t == now + 15
           m == loop_body(
                    Memory(disconnect_history, signal_history, connection_start_time,
                           last_check_time, _get_default_status, 0),
                    _get_default_status, t)
       IN /\ now' = t
          /\ disconnect_history' = m.dh
          /\ signal_history' = m.sh
          /\ last_check_time' = m.lct
          /\ last_status' = m.ls
          /\ connection_start_time' = m.cst
          /\ alerts' = m.out
          /\ obs' = Observe("follow", t, _get_default_status, m)
    /\ pc' = "followed"
    /\ iter' = iter + 1
    /\ UNCHANGED <<is_monitoring, reader, pending, threads, integration, windows>>

NextRecord ==
    \/ Score
    \/ Follow

\* SpecRecord: the scored disconnect of SpecScore and the pattern analysis that
\* next runs on the history it was appended to
SpecRecord == InitScore /\ [][NextRecord]_vars

-----------------------------------------------------------------------------
(* The monitor loop on stores the monitor has recorded                      *)
(*                                                                          *)
(* SpecStep starts in the middle of a run of the loop, 20 s before          *)
(* TickClock, on stores that earlier iterations left, and goes on with the  *)
(* steps of Spec: the next iteration may record a disconnect and run the    *)
(* pattern analysis on a history that every detector has something to find  *)
(* in.                                                                      *)

\* seconds before TickClock at which a disconnect may have been recorded
StepAges == <<330, 320, 310, 300, 100, 50>>

InitStep ==
    /\ is_monitoring = TRUE
    /\ pc = "loop"
    /\ now = TickClock - 20
    /\ \E choice \in [DOMAIN StepAges -> {Skip, "Office"}] :
          disconnect_history =
              RecordFrom(1, <<>>, StepAges, choice, [duration |-> 10, signal |-> 80])
    /\ signal_history \in
          {<<>>, TrackBefore(TickClock - 20, 1, <<>>, 10, <<10, 80>>, <<"Cafe">>, 1)}
    /\ last_status \in {_get_default_status,
                         [connected |-> TRUE, ssid |-> "Office", signal |-> 80]}
    /\ connection_start_time = IF last_status.connected THEN TickClock - 30 ELSE NoTime
    /\ last_check_time = TickClock - 30
    /\ alerts = <<>>
    /\ iter = MaxIter - 1
    /\ obs = [NoObs EXCEPT !.sample = last_status]
    /\ reader = NoReader
    /\ pending = _get_default_status
    /\ threads = NoThreads
    /\ integration = NoIntegration
    /\ windows = NoWindows

SpecStep == InitStep /\ [][Next]_vars

-----------------------------------------------------------------------------
(* The monitor thread and its callers, step by step                         *)
(*                                                                          *)
(* SpecStop and SpecThreads run the loop in the steps at which another      *)
(* thread can come in between: the test of the while condition (line 86),   *)
(* the sample up to the append of a disconnect (88-98, 295), the rest of    *)
(* the record step (298-307, 99) and the periodic analysis (104-109).  The  *)
(* other thread calls stop_monitoring and, in SpecThreads, get_recent_events *)
(* (530-545), one bytecode-level step at a time: an append changes the list *)
(* object in place, a prune or a clear binds the attribute to a new list.   *)
(* No emission raises here.                                                 *)

MaxRounds == 2          \* loop iterations in one run of SpecStop and SpecThreads

\* seconds before TickClock at which a disconnect may have been recorded
ThreadAges == <<100, 50>>

\* seconds from one sample of the loop to the next
ThreadSteps == {1, 90000}

ThreadStatuses ==
    {_get_default_status, [connected |-> TRUE, ssid |-> "Office", signal |-> 80]}

\* the loop goes on although the flag is down
loop_continues_always(flag) == TRUE

\* the while condition (line 86)
loop_continues(flag) == flag

\* sorted(events, key=timestamp, reverse=True): descending, events of one
\* timestamp in the order they had (the formatted timestamps order as the clock
\* values do)
RECURSIVE InsertDescending(_, _)
InsertDescending(e, sorted) ==
    IF sorted = <<>> THEN <<e>>
    ELSE IF Head(sorted).timestamp >= e.timestamp
    THEN <<Head(sorted)>> \o InsertDescending(e, Tail(sorted))
    ELSE <<e>> \o sorted

RECURSIVE SortedDescending(_)
SortedDescending(events) ==
    IF events = <<>> THEN <<>>
    ELSE InsertDescending(events[Len(events)],
                          SortedDescending(SubSeq(events, 1, Len(events) - 1)))

\* the entry get_recent_events makes of a disconnect (lines 537-543)
EventSummary(d) ==
    [timestamp |-> d.timestamp, ssid |-> d.ssid, threat_score |-> d.threat_score,
     duration |-> d.connection_duration]

\* get_recent_events run from beginning to end on history dh at clock t
get_recent_events(dh, t) ==
    LET recent == SelectSeq(dh, LAMBDA d : d.timestamp > t - 3600)
    IN SortedDescending([i \in DOMAIN recent |-> EventSummary(recent[i])])

\* the reader after self.disconnect_history, which held old, was bound to new
Rebound(r, old, new) ==
    LET r1 == IF r.pc = "reading" /\ r.attached
              THEN [r EXCEPT !.attached = FALSE, !.list = old] ELSE r
    IN IF r1.pc \in {"begun", "reading"} THEN [r1 EXCEPT !.whole = @ \cup {new}] ELSE r1

InitThreads ==
    /\ is_monitoring = TRUE
    /\ pc = "loop"
    /\ now = TickClock
    /\ \E choice \in [DOMAIN ThreadAges -> {Skip, "Office"}] :
          disconnect_history =
              RecordFrom(1, <<>>, ThreadAges, choice, [duration |-> 10, signal |-> 80])
    /\ signal_history = <<>>
    /\ last_status \in ThreadStatuses
    /\ connection_start_time = IF last_status.connected THEN TickClock - 10 ELSE NoTime
    /\ last_check_time = TickClock - 20
    /\ alerts = <<>>
    /\ iter = 0
    /\ obs = [NoObs EXCEPT !.sample = last_status]
    /\ reader = NoReader
    /\ pending = _get_default_status
    /\ threads = NoThreads
    /\ integration = NoIntegration
    /\ windows = NoWindows

\* line 86, the condition read true
ThreadEnter ==
    /\ pc = "loop"
    /\ loop_continues(is_monitoring)
    /\ iter < MaxRounds
    /\ pc' = "body"
    /\ iter' = iter + 1
    /\ UNCHANGED <<is_monitoring, now, disconnect_history, signal_history,
                   last_check_time, last_status, connection_start_time, alerts, obs,
                   reader, pending, threads, integration, windows>>

\* lines 88-98: the sleep, the sample, the signal tracked and, on a
\* connected -> disconnected edge, the disconnect scored and appended (line 295)
ThreadSample ==
    /\ pc = "body"
    /\ \E dt \in ThreadSteps, current_status \in ThreadStatuses :
          LET t == now + dt
              m0 == Memory(disconnect_history, signal_history, connection_start_time,
                           last_check_time, last_status, 0)
          IN \E m \in {detect_edges(IF current_status.connected
                                    THEN _track_signal_changes(m0, current_status, t)
                                    ELSE m0,
                                    current_status, t)} :
             /\ now' = t
             /\ pending' = current_status
             /\ signal_history' = m.sh
             /\ IF m.appended = 1
                THEN /\ disconnect_history' =
                            Append(disconnect_history, m.dh[Len(m.dh)])
                     /\ connection_start_time' = connection_start_time
                     /\ pc' = "appended"
                ELSE /\ disconnect_history' = disconnect_history
                     /\ connection_start_time' = m.cst
                     /\ pc' = "analysis"
             /\ obs' = Observe("sample", t, current_status, m)
    /\ alerts' = <<>>
    /\ UNCHANGED <<is_monitoring, last_check_time, last_status, iter, reader,
                   threads, integration, windows>>

\* lines 298-307 and 99: the history pruned into a new list, the immediate alert
ThreadPrune ==
    /\ pc = "appended"
    /\ \E m \in {detect_edges(
                      Memory(SubSeq(disconnect_history, 1, Len(disconnect_history) - 1),
                             signal_history, connection_start_time, last_check_time,
                             last_status, 0),
                      pending, now)} :
          /\ disconnect_history' = m.dh
          /\ connection_start_time' = m.cst
          /\ alerts' = m.out
          /\ obs' = Observe("record", now, pending, m)
          /\ reader' = Rebound(reader, disconnect_history, m.dh)
    /\ pc' = "analysis"
    /\ UNCHANGED <<is_monitoring, now, signal_history, last_check_time, last_status,
                   iter, pending, threads, integration, windows>>

\* lines 104-109: the periodic analysis when it is due, whose Rapid Disconnect
\* clear binds the history to a new list, and last_status = current_status
ThreadAnalyse ==
    /\ pc = "analysis"
    /\ \E m \in {remember_status(
                    periodic_analysis(
                        Memory(disconnect_history, signal_history,
                               connection_start_time, last_check_time, last_status, 0),
                        now),
                    pending)} :
          /\ disconnect_history' = m.dh
          /\ last_check_time' = m.lct
          /\ last_status' = m.ls
          /\ alerts' = alerts \o m.out
          /\ obs' = Observe("analysed", now, pending, m)
          /\ reader' = IF m.dh # disconnect_history
                       THEN Rebound(reader, disconnect_history, m.dh) ELSE reader
    /\ pc' = "loop"
    /\ UNCHANGED <<is_monitoring, now, signal_history, connection_start_time, iter,
                   pending, threads, integration, windows>>

\* get_recent_events, lines 532-533: the clock read, the result list created
get_recent_events_begin ==
    /\ reader.pc = "idle"
    /\ reader' =
          [NoReader EXCEPT
             !.pc = "begun", !.clock = now,
             !.whole =
                 IF pc = "appended"
                 THEN {SubSeq(disconnect_history, 1, Len(disconnect_history) - 1),
                       prune_disconnect_history(disconnect_history, now)}
                 ELSE {disconnect_history}]
    /\ UNCHANGED <<is_monitoring, pc, now, disconnect_history, signal_history,
                   last_check_time, last_status, connection_start_time, alerts, iter,
                   obs, pending, threads, integration, windows>>

\* line 535: self.disconnect_history evaluated, the iteration over that list begun
get_recent_events_iter ==
    /\ reader.pc = "begun"
    /\ reader' = [reader EXCEPT !.pc = "reading", !.attached = TRUE, !.i = 0]
    /\ UNCHANGED <<is_monitoring, pc, now, disconnect_history, signal_history,
                   last_check_time, last_status, connection_start_time, alerts, iter,
                   obs, pending, threads, integration, windows>>

\* lines 535-543: the next entry of the list, when it has one
get_recent_events_visit ==
    /\ reader.pc = "reading"
    /\ LET list == IF reader.attached THEN disconnect_history ELSE reader.list
       IN /\ reader.i < Len(list)
          /\ reader' =
                [reader EXCEPT
                   !.i = @ + 1,
                   !.events = IF list[reader.i + 1].timestamp > reader.clock - 3600
                              THEN Append(@, EventSummary(list[reader.i + 1]))
                              ELSE @]
    /\ UNCHANGED <<is_monitoring, pc, now, disconnect_history, signal_history,
                   last_check_time, last_status, connection_start_time, alerts, iter,
                   obs, pending, threads, integration, windows>>

\* line 545: the list is exhausted, the events are sorted and returned
get_recent_events_return ==
    /\ reader.pc = "reading"
    /\ LET list == IF reader.attached THEN disconnect_history ELSE reader.list
       IN /\ reader.i >= Len(list)
          /\ reader' =
                [reader EXCEPT
                   !.pc = "done",
                   !.result = SortedDescending(reader.events),
                   !.whole =
                       IF pc = "appended"
                       THEN @ \cup {prune_disconnect_history(disconnect_history, now)}
                       ELSE @]
    /\ UNCHANGED <<is_monitoring, pc, now, disconnect_history, signal_history,
                   last_check_time, last_status, connection_start_time, alerts, iter,
                   obs, pending, threads, integration, windows>>

Thread ==
    \/ ThreadEnter
    \/ ThreadSample
    \/ ThreadPrune
    \/ ThreadAnalyse
    \/ LoopExit

NextStop ==
    \/ stop_monitoring
    \/ Thread

\* the monitor thread is scheduled again and again, and each of its steps ends
\* (the sleeps are finite, the status query has a timeout)
SpecStop == InitThreads /\ [][NextStop]_vars /\ WF_vars(Thread)

NextThreads ==
    \/ NextStop
    \/ get_recent_events_begin
    \/ get_recent_events_iter
    \/ get_recent_events_visit
    \/ get_recent_events_return

SpecThreads == InitThreads /\ [][NextThreads]_vars

-----------------------------------------------------------------------------
(* start_monitoring and stop_monitoring called in any order                 *)
(*                                                                          *)
(* SpecRestart keeps every thread start_monitoring has started in threads,  *)
(* with its position and the two locals of _enhanced_monitor_loop.          *)
(* stop_monitoring only lowers the flag (lines 76-79): it does not wait for *)
(* the thread, which reads the flag again when its iteration is over.  An   *)
(* iteration (the 1 s sleep, the status query and lines 91-109) is one step *)
(* of its thread; calls come in between the steps.  No emission raises here. *)

MaxStarts == 2          \* calls of start_monitoring in one run of SpecRestart
MaxPasses == 2          \* loop iterations of one thread in one run of SpecRestart

\* threading.Thread(target=self._enhanced_monitor_loop), before it has run
NewThread ==
    [pc |-> "first", last_status |-> _get_default_status,
     connection_start_time |-> NoTime, passes |-> 0]

\* start_monitoring (lines 68-74): the threads after the call
start_thread(flag, ts) == IF ~flag THEN Append(ts, NewThread) ELSE ts

StartMonitoring ==
    /\ iter < MaxStarts
    /\ iter' = iter + 1
    /\ threads' = start_thread(is_monitoring, threads)
    /\ is_monitoring' = TRUE
    /\ UNCHANGED <<pc, now, disconnect_history, signal_history, last_check_time,
                   last_status, connection_start_time, alerts, obs, reader, pending,
                   integration, windows>>

\* lines 83-84 on thread i: the first sample, taken before the loop
MonitorFirstSample(i) ==
    /\ threads[i].pc = "first"
    /\ \E status \in ThreadStatuses :
          threads' = [threads EXCEPT
                         ![i].pc = "while",
                         ![i].last_status = status,
                         ![i].connection_start_time =
                             IF status.connected THEN now ELSE NoTime]
    /\ UNCHANGED <<is_monitoring, pc, now, disconnect_history, signal_history,
                   last_check_time, last_status, connection_start_time, alerts, iter,
                   obs, reader, pending, integration, windows>>

\* line 86 on thread i: the flag read; the thread ends when it is down
MonitorTest(i) ==
    /\ threads[i].pc = "while"
    /\ loop_continues(is_monitoring) => threads[i].passes < MaxPasses
    /\ threads' = [threads EXCEPT
                      ![i].pc = IF loop_continues(is_monitoring) THEN "body"
                                ELSE "done",
                      ![i].passes = IF loop_continues(is_monitoring) THEN @ + 1
                                    ELSE @]
    /\ UNCHANGED <<is_monitoring, pc, now, disconnect_history, signal_history,
                   last_check_time, last_status, connection_start_time, alerts, iter,
                   obs, reader, pending, integration, windows>>

\* lines 88-109 on thread i: one pass of the while body on the shared stores
MonitorIterate(i) ==
    /\ threads[i].pc = "body"
    /\ \E current_status \in ThreadStatuses :
          LET t == now + 1
          IN \E m \in {loop_body(Memory(disconnect_history, signal_history,
                                        threads[i].connection_start_time,
                                        last_check_time, threads[i].last_status, 0),
                                 current_status, t)} :
                /\ now' = t
                /\ disconnect_history' = m.dh
                /\ signal_history' = m.sh
                /\ last_check_time' = m.lct
                /\ alerts' = m.out
                /\ obs' = Observe("iter", t, current_status, m)
                /\ threads' = [threads EXCEPT
                                  ![i].pc = "while",
                                  ![i].last_status = m.ls,
                                  ![i].connection_start_time = m.cst]
    /\ UNCHANGED <<is_monitoring, pc, last_status, connection_start_time, iter,
                   reader, pending, integration, windows>>

NextRestart ==
    \/ StartMonitoring
    \/ stop_monitoring
    \/ \E i \in DOMAIN threads : MonitorFirstSample(i)
    \/ \E i \in DOMAIN threads : MonitorTest(i)
    \/ \E i \in DOMAIN threads : MonitorIterate(i)

SpecRestart == Init /\ [][NextRestart]_vars

-----------------------------------------------------------------------------
(* DeauthDetectionIntegration (src/src/deauth_integration.py) and its        *)
(* NotificationManager (src/src/notification_manager.py)                    *)
(*                                                                          *)
(* SpecNotify starts after construction and calls on_deauth_detected,       *)
(* set_notifications_enabled, register_detection_callback,                  *)
(* unregister_detection_callback and reset_stats in any order, from one     *)
(* thread.  notification.notify may return or raise, and so may every       *)
(* callback; a callback does nothing else to the integration.               *)

MaxCalls == 3           \* calls of on_deauth_detected in one run of SpecNotify
MaxToggles == 2         \* calls of set_notifications_enabled in one run of SpecNotify

Macs == {"AA:BB:CC:DD:EE:01", "BB:CC:DD:EE:FF:02"}

CallbackNames == {"custom_logger", "gui"}

\* the variables of the EnhancedWiFiMonitor
monitor_vars == <<is_monitoring, pc, now, disconnect_history, signal_history,
                  last_check_time, last_status, connection_start_time, alerts, iter,
                  obs, reader, pending, threads>>

\* NotificationManager.set_enabled
set_enabled(g, enabled) == [g EXCEPT !.enabled = enabled /\ g.plyer_available]

\* the test for a known attacker left out
notify_new_attacker_repeating(g, attacker_mac, delivered) ==
    IF ~g.enabled THEN g
    ELSE [g EXCEPT !.known_attackers = @ \cup {attacker_mac},
                   !.sent = Append(@, [mac |-> attacker_mac, delivered |-> delivered])]

\* NotificationManager.notify_new_attacker; delivered: notification.notify
\* returned (otherwise it raised and the message went to the console)
notify_new_attacker(g, attacker_mac, delivered) ==
    IF ~g.enabled THEN g
    ELSE IF attacker_mac \in g.known_attackers THEN g
    ELSE [g EXCEPT !.known_attackers = @ \cup {attacker_mac},
                   !.sent = Append(@, [mac |-> attacker_mac, delivered |-> delivered])]

\* NotificationManager.clear_known_attackers
clear_known_attackers(g) == [g EXCEPT !.known_attackers = {}]

\* the loop left at the first callback that raises
RECURSIVE InvokeCallbacks_until_raise(_, _)
InvokeCallbacks_until_raise(names, raising) ==
    IF names = <<>> THEN <<>>
    ELSE IF Head(names) \in raising THEN <<Head(names)>>
    ELSE <<Head(names)>> \o InvokeCallbacks_until_raise(Tail(names), raising)

\* lines 71-75: the callbacks invoked, in the order of the dict; the exception of
\* a callback in raising is caught and the loop goes on
RECURSIVE InvokeCallbacks(_, _)
InvokeCallbacks(names, raising) ==
    IF names = <<>> THEN <<>>
    ELSE <<Head(names)>> \o InvokeCallbacks(Tail(names), raising)

on_deauth_detected(g, attacker_mac, delivered, raising) ==
    LET counted == [g EXCEPT !.attack_count = @ + 1]
        notified == notify_new_attacker(counted, attacker_mac, delivered)
    IN [notified EXCEPT !.called = InvokeCallbacks(g.detection_callbacks, raising),
                        !.detected = Append(@, attacker_mac),
                        !.muted = ~g.enabled,
                        !.calls = @ + 1]

\* self.detection_callbacks[name] = callback: a name already registered keeps
\* its place in the dict
register_detection_callback(g, name) ==
    IF \E i \in DOMAIN g.detection_callbacks : g.detection_callbacks[i] = name THEN g
    ELSE [g EXCEPT !.detection_callbacks = Append(@, name)]

unregister_detection_callback(g, name) ==
    [g EXCEPT !.detection_callbacks = SelectSeq(@, LAMBDA n : n # name)]

reset_stats(g) ==
    [clear_known_attackers([g EXCEPT !.attack_count = 0]) EXCEPT
        !.sent = <<>>, !.detected = <<>>]

InitNotify ==
    /\ is_monitoring = FALSE
    /\ pc = "idle"
    /\ now \in StartClocks
    /\ disconnect_history = <<>>
    /\ signal_history = <<>>
    /\ last_check_time = now
    /\ last_status = _get_default_status
    /\ connection_start_time = NoTime
    /\ alerts = <<>>
    /\ iter = 0
    /\ obs = NoObs
    /\ reader = NoReader
    /\ pending = _get_default_status
    /\ threads = NoThreads
    /\ \E enable_notifications \in BOOLEAN, plyer_available \in BOOLEAN :
          integration = DeauthDetectionIntegration(enable_notifications, plyer_available)
    /\ windows = NoWindows

OnDeauthDetected ==
    /\ integration.calls < MaxCalls
    /\ \E attacker_mac \in Macs, delivered \in BOOLEAN, raising \in SUBSET CallbackNames :
          integration' = on_deauth_detected(integration, attacker_mac, delivered, raising)
    /\ UNCHANGED <<monitor_vars, windows>>

SetNotificationsEnabled ==
    /\ integration.toggles < MaxToggles
    /\ \E enabled \in BOOLEAN :
          integration' = [set_enabled(integration, enabled) EXCEPT !.toggles = @ + 1]
    /\ UNCHANGED <<monitor_vars, windows>>

RegisterDetectionCallback ==
    /\ \E name \in CallbackNames :
          integration' = register_detection_callback(integration, name)
    /\ UNCHANGED <<monitor_vars, windows>>

UnregisterDetectionCallback ==
    /\ \E name \in CallbackNames :
          integration' = unregister_detection_callback(integration, name)
    /\ UNCHANGED <<monitor_vars, windows>>

ResetStats ==
    /\ integration' = reset_stats(integration)
    /\ UNCHANGED <<monitor_vars, windows>>

NextNotify ==
    \/ OnDeauthDetected
    \/ SetNotificationsEnabled
    \/ RegisterDetectionCallback
    \/ UnregisterDetectionCallback
    \/ ResetStats

SpecNotify == InitNotify /\ [][NextNotify]_vars

-----------------------------------------------------------------------------
(* WindowsWiFiMonitor (src/windows_wifi_monitor.py): its disconnect history  *)
(*                                                                          *)
(* SpecWindows starts after construction and applies the operations on the  *)
(* history in any order, from one thread, each at a later reading of the    *)
(* clock: _handle_disconnect_event on a disconnected status,                *)
(* _analyze_disconnect_patterns and get_recent_events.                      *)

MaxWindowsSteps == 4    \* operations in one run of SpecWindows

\* seconds from one operation to the next
WindowsSteps == {2, 1798, 1800, 3600}

\* the statuses _get_wifi_status returns when the connection is lost
WindowsStatuses ==
    {[ssid |-> None, state |-> "disconnected"],
     [ssid |-> "TestNetwork", state |-> "disconnecting"]}

\* strftime("%Y-%m-%d %H:%M:%S"): the day and the hour, minute and second of it
Strftime(t) == <<t \div 86400, (t % 86400) \div 3600, (t % 3600) \div 60, t % 60>>

\* lines 126-142: the disconnect appended, the history pruned to one hour
_handle_disconnect_event(w, status, t) ==
    LET disconnect_info == [timestamp |-> t, ssid |-> status.ssid, state |-> status.state]
        added == Append(w.disconnect_history, disconnect_info)
    IN [w EXCEPT !.disconnect_history =
                     SelectSeq(added, LAMBDA d : d.timestamp > t - 3600),
                 !.step = "record"]

\* lines 168-188: the history cleared when 3 disconnects lie in the last 5 minutes
_analyze_disconnect_patterns(w, t) ==
    LET recent_disconnects ==
            SelectSeq(w.disconnect_history, LAMBDA d : t - d.timestamp <= 5 * 60)
    IN IF Len(w.disconnect_history) < 2 THEN [w EXCEPT !.step = "analyse"]
       ELSE IF Len(recent_disconnects) >= 3
       THEN [w EXCEPT !.disconnect_history = <<>>, !.step = "analyse"]
       ELSE [w EXCEPT !.step = "analyse"]

\* the events at the cutoff kept as well
WindowsWiFiMonitor_get_recent_events_inclusive(dh, t) ==
    LET recent == SelectSeq(dh, LAMBDA d : d.timestamp >= t - 3600)
    IN [i \in DOMAIN recent |->
           [timestamp |-> Strftime(recent[i].timestamp), ssid |-> recent[i].ssid,
            state |-> recent[i].state]]

\* WindowsWiFiMonitor.get_recent_events on history dh at clock t
WindowsWiFiMonitor_get_recent_events(dh, t) ==
    LET recent == SelectSeq(dh, LAMBDA d : d.timestamp > t - 3600)
    IN [i \in DOMAIN recent |->
           [timestamp |-> Strftime(recent[i].timestamp), ssid |-> recent[i].ssid,
            state |-> recent[i].state]]

InitWindows ==
    /\ is_monitoring = FALSE
    /\ pc = "idle"
    /\ now = TickClock
    /\ disconnect_history = <<>>
    /\ signal_history = <<>>
    /\ last_check_time = now
    /\ last_status = _get_default_status
    /\ connection_start_time = NoTime
    /\ alerts = <<>>
    /\ iter = 0
    /\ obs = NoObs
    /\ reader = NoReader
    /\ pending = _get_default_status
    /\ threads = NoThreads
    /\ integration = NoIntegration
    /\ windows = NoWindows

WindowsHandleDisconnect ==
    /\ iter < MaxWindowsSteps
    /\ \E dt \in WindowsSteps, status \in WindowsStatuses :
          /\ now' = now + dt
          /\ windows' = _handle_disconnect_event(windows, status, now + dt)
    /\ iter' = iter + 1
    /\ UNCHANGED <<is_monitoring, pc, disconnect_history, signal_history,
                   last_check_time, last_status, connection_start_time, alerts, obs,
                   reader, pending, threads, integration>>

WindowsAnalyse ==
    /\ iter < MaxWindowsSteps
    /\ \E dt \in WindowsSteps :
          /\ now' = now + dt
          /\ windows' = _analyze_disconnect_patterns(windows, now + dt)
    /\ iter' = iter + 1
    /\ UNCHANGED <<is_monitoring, pc, disconnect_history, signal_history,
                   last_check_time, last_status, connection_start_time, alerts, obs,
                   reader, pending, threads, integration>>

WindowsGetRecentEvents ==
    /\ iter < MaxWindowsSteps
    /\ \E dt \in WindowsSteps :
          /\ now' = now + dt
          /\ windows' =
                [windows EXCEPT
                   !.events = WindowsWiFiMonitor_get_recent_events(
                                  windows.disconnect_history, now + dt),
                   !.clock = now + dt,
                   !.h0 = windows.disconnect_history,
                   !.step = "read"]
    /\ iter' = iter + 1
    /\ UNCHANGED <<is_monitoring, pc, disconnect_history, signal_history,
                   last_check_time, last_status, connection_start_time, alerts, obs,
                   reader, pending, threads, integration>>

NextWindows ==
    \/ WindowsHandleDisconnect
    \/ WindowsAnalyse
    \/ WindowsGetRecentEvents

SpecWindows == InitWindows /\ [][NextWindows]_vars

-----------------------------------------------------------------------------
(* Properties of the monitor loop, checked under Spec *)

\* C1: in every loop iteration, a connected -> disconnected transition between the
\* previous sample and this one appends exactly one DisconnectEvent, and a
\* disconnected -> disconnected repeat appends none, also when an emission of an
\* earlier iteration raised and was caught.
C1_EdgeAppendsExactlyOne ==
    obs.step = "iter" =>
        /\ (obs.prev.connected /\ ~obs.sample.connected) => obs.appended = 1
        /\ (~obs.prev.connected /\ ~obs.sample.connected) => obs.appended = 0

\* C2 as claimed: after any loop iteration (a record-snapshot step, with its
\* pattern-analysis tick when one is due) no event of the disconnect history is
\* more than 24 hours older than the clock of that iteration.
C2_NoEventOlderThanMemory ==
    obs.step = "iter" =>
        \A i \in DOMAIN disconnect_history :
            disconnect_history[i].timestamp >= obs.time - pattern_memory_hours * 3600

\* C2 as amended: after a loop iteration that appended a DisconnectEvent, every
\* event of the disconnect history is less than 24 hours older than the appended
\* event.
C2_PrunedOnAppend ==
    (obs.step = "iter" /\ obs.appended > 0) =>
        \A i \in DOMAIN disconnect_history :
            disconnect_history[i].timestamp > obs.time - pattern_memory_hours * 3600

\* an iteration appended an event and its prune removed an older one
C2_Witness ==
    obs.step = "iter" /\ obs.appended > 0 /\ obs.dpruned

\* C3 as claimed: after any loop iteration no sample of the signal history is more
\* than 1 hour older than the clock of that iteration.
C3_NoSampleOlderThanHour ==
    obs.step = "iter" =>
        \A i \in DOMAIN signal_history :
            signal_history[i].timestamp >= obs.time - 3600

\* C3 as amended: after a loop iteration that inserted a sample, every sample of
\* the signal history is less than 1 hour older than the inserted sample.
C3_PrunedOnInsert ==
    (obs.step = "iter" /\ obs.inserted > 0) =>
        \A i \in DOMAIN signal_history :
            signal_history[i].timestamp > obs.time - 3600

\* an iteration inserted a sample and its prune removed an older one
C3_Witness ==
    obs.step = "iter" /\ obs.inserted > 0 /\ obs.spruned

\* C22: a loop iteration appends the sample to the signal history (after which
\* only older samples may be pruned) if and only if the sampled status is
\* connected with a signal above 0; otherwise it leaves the signal history as it
\* was.
C22_SampleAppendedIffConnectedWithSignal ==
    [][(pc = "loop" /\ iter' = iter + 1 /\ obs'.step = "iter") =>
          LET sample == obs'.sample
              entry == [timestamp |-> obs'.time, ssid |-> sample.ssid,
                        signal |-> sample.signal]
          IN /\ obs'.inserted = (IF sample.connected /\ sample.signal > 0 THEN 1 ELSE 0)
             /\ IF sample.connected /\ sample.signal > 0
                THEN \E k \in 0..Len(signal_history) :
                        signal_history' =
                            Append(SubSeq(signal_history, k + 1, Len(signal_history)),
                                   entry)
                ELSE signal_history' = signal_history]_vars

\* a connected sample of signal 0 left a signal history that holds a sample as it
\* was
C22_Witness ==
    /\ obs.step = "iter"
    /\ obs.sample.connected
    /\ obs.sample.signal = 0
    /\ obs.inserted = 0
    /\ signal_history # <<>>

\* C18: a loop iteration in which an emission raised is a no-op: it leaves the
\* disconnect history, the signal history, the last observed status and the
\* connection start time as they were before it.
C18_FaultIsNoOp ==
    [][(iter' = iter + 1 /\ obs'.step = "iter" /\ obs'.faulted) =>
           /\ disconnect_history' = disconnect_history
           /\ signal_history' = signal_history
           /\ last_status' = last_status
           /\ connection_start_time' = connection_start_time]_vars

-----------------------------------------------------------------------------
(* Properties of a tick, checked under SpecTick *)

SetOf(s) == {s[i] : i \in DOMAIN s}

RapidReason == "Rapid disconnect pattern detected"
NetworkReason == "Network targeting detected"
SignalReason == "Signal interference detected"

Emitted(reason) == {a \in SetOf(alerts) : a.reason = reason}

EmittedFor(reason, ssid) == {i \in DOMAIN alerts :
                                alerts[i].reason = reason /\ alerts[i].ssid = ssid}

\* the events of dh younger than secs at clock t
Within(dh, t, secs) == {i \in DOMAIN dh : dh[i].timestamp > t - secs}

\* the cutoff of the Rapid Disconnect window and the events in it at the start of
\* the most recent tick
RapidCutoff == obs.time - suspicious_window_minutes * 60
RapidCount == Cardinality(Within(obs.h0, obs.time, suspicious_window_minutes * 60))

NamedSsids == {"Office", "Cafe", "Unknown"}

\* C4: the threat score stored on every DisconnectEvent and the threat score of
\* every alert a tick emits is an integer from 0 to 10.
C4_ScoresInRange ==
    /\ \A i \in DOMAIN disconnect_history : disconnect_history[i].threat_score \in 0..10
    /\ \A i \in DOMAIN alerts : alerts[i].threat_score \in 0..10

\* a tick on a store that holds an event whose factors sum past 10, with six
\* events in the rapid window (2 * 6 is past 10 too)
C4_Witness ==
    /\ obs.step = "tick"
    /\ RapidCount = 6
    /\ Emitted(RapidReason) # {}
    /\ \E i \in DOMAIN obs.h0 :
          /\ obs.h0[i].threat_score = 10
          /\ obs.h0[i].connection_duration < 30
          /\ obs.h0[i].last_signal > 70
          /\ Cardinality(Within(obs.h0, obs.h0[i].timestamp, 300) \cap 1..(i - 1)) >= 3

\* C5 as claimed: when Rapid Disconnect has fired, the history holds no event at
\* or before the window cutoff.
C5_ClearedUpToCutoff ==
    (obs.step = "tick" /\ Emitted(RapidReason) # {}) =>
        \A i \in DOMAIN disconnect_history :
            ~(disconnect_history[i].timestamp <= RapidCutoff)

\* C5 as amended: when Rapid Disconnect has fired, the history holds exactly the
\* events it held at or before the window cutoff, and none after the cutoff.
C5_ClearedAfterCutoff ==
    (obs.step = "tick" /\ Emitted(RapidReason) # {}) =>
        /\ \A i \in DOMAIN disconnect_history :
              disconnect_history[i].timestamp <= RapidCutoff
        /\ SetOf(disconnect_history)
              = {e \in SetOf(obs.h0) : e.timestamp <= RapidCutoff}

\* Rapid Disconnect fired on a store with an event exactly at the cutoff
C5_Witness ==
    /\ obs.step = "tick"
    /\ Emitted(RapidReason) # {}
    /\ \E i \in DOMAIN disconnect_history : disconnect_history[i].timestamp = RapidCutoff
    /\ Len(disconnect_history) < Len(obs.h0)

(* C6: the detectors run one after the other in a given order *)

Detectors == {"rapid", "temporal", "network", "signal"}

Orders == {o \in [1..4 -> Detectors] : \A i, j \in 1..4 : i # j => o[i] # o[j]}

RunDetector(name, m, t) ==
    CASE name = "rapid" -> _analyze_rapid_disconnects(m, t)
      [] name = "temporal" -> _analyze_temporal_patterns(m, t)
      [] name = "network" -> _analyze_network_targeting(m, t)
      [] name = "signal" -> _analyze_signal_based_attacks(m, t)

RECURSIVE RunInOrder(_, _, _)
RunInOrder(order, m, t) ==
    IF order = <<>> THEN m
    ELSE RunInOrder(Tail(order), RunDetector(Head(order), m, t), t)

\* the alerts of the most recent tick had its detectors run in this order
AlertsInOrder(order) ==
    IF analysis_runs(obs.h0)
    THEN RunInOrder(order, Memory(obs.h0, obs.s0, NoTime, 0, _get_default_status, 0),
                    obs.time).out
    ELSE <<>>

\* C6 as claimed: on every store, every order of the four detectors emits the set
\* of alerts the tick emitted.
C6_OrderIndependent ==
    obs.step = "tick" =>
        \A order \in Orders : SetOf(AlertsInOrder(order)) = SetOf(alerts)

\* C6 as amended: on a store with fewer than 3 events in the trailing 5 minutes
\* (Rapid Disconnect does not fire), every order of the four detectors emits the
\* set of alerts the tick emitted.
C6_OrderIndependentUnlessRapidFires ==
    (obs.step = "tick" /\ RapidCount < rapid_disconnect_threshold) =>
        \A order \in Orders : SetOf(AlertsInOrder(order)) = SetOf(alerts)

\* a tick in which Rapid Disconnect did not fire, two other detectors did, and an
\* event lay in the rapid window
C6_Witness ==
    /\ obs.step = "tick"
    /\ RapidCount < rapid_disconnect_threshold
    /\ RapidCount > 0
    /\ Emitted(NetworkReason) # {}
    /\ Emitted("Automated attack pattern detected") # {}

\* the events of SSID ssid in the trailing hour of dh
HourCount(dh, ssid) ==
    Cardinality({i \in Within(dh, obs.time, 3600) : dh[i].ssid = ssid})

\* C7 as claimed: every SSID with at least 3 events in the trailing hour at the
\* start of the tick gets exactly one Network Targeting alert with score 7, and an
\* SSID with fewer gets none.
C7_NetworkTargetingPerSsid ==
    obs.step = "tick" =>
        \A ssid \in NamedSsids :
            /\ HourCount(obs.h0, ssid) >= 3 =>
                  /\ Cardinality(EmittedFor(NetworkReason, ssid)) = 1
                  /\ \A i \in EmittedFor(NetworkReason, ssid) : alerts[i].threat_score = 7
            /\ HourCount(obs.h0, ssid) < 3 => EmittedFor(NetworkReason, ssid) = {}

\* C7 as amended: the events counted are those the Rapid Disconnect step of the
\* tick left in the history, which is the history after the tick, and the
\* placeholder name "Unknown" and an absent SSID never get an alert.
C7_NetworkTargetingAfterRapid ==
    obs.step = "tick" =>
        /\ \A ssid \in NamedSsids \ {"Unknown"} :
              /\ HourCount(disconnect_history, ssid) >= 3 =>
                    /\ Cardinality(EmittedFor(NetworkReason, ssid)) = 1
                    /\ \A i \in EmittedFor(NetworkReason, ssid) :
                          alerts[i].threat_score = 7
              /\ HourCount(disconnect_history, ssid) < 3 =>
                    EmittedFor(NetworkReason, ssid) = {}
        /\ EmittedFor(NetworkReason, "Unknown") = {}
        /\ EmittedFor(NetworkReason, None) = {}

\* Rapid Disconnect fired and cleared events of an SSID that still had 3 older
\* events in the trailing hour, for which Network Targeting then fired
C7_Witness ==
    /\ obs.step = "tick"
    /\ Emitted(RapidReason) # {}
    /\ \E ssid \in NamedSsids :
          /\ EmittedFor(NetworkReason, ssid) # {}
          /\ HourCount(obs.h0, ssid) > HourCount(disconnect_history, ssid)

\* the signals of SSID ssid in the trailing 10 minutes of the signal history the
\* most recent tick started with
TenMinuteSignals(ssid) ==
    LET mine == SelectSeq(obs.s0, LAMBDA s : s.timestamp > obs.time - 600 /\ s.ssid = ssid)
    IN [i \in DOMAIN mine |-> mine[i].signal]

\* population variance > 400 and mean < 50, as mean of squares minus square of mean
HighVarianceLowMean(signals) ==
    LET n == Len(signals)
        total == SumSeq(signals)
        squares == SumSeq([i \in DOMAIN signals |-> signals[i] * signals[i]])
    IN n * squares - total * total > 400 * n * n /\ total < 50 * n

\* C8: on any tick, whatever the disconnect history holds, every SSID with at
\* least 10 samples in the trailing 10 minutes, variance > 400 and mean < 50 gets
\* a Signal Interference alert with score 6.
C8_SignalInterferenceAlways ==
    obs.step = "tick" =>
        \A ssid \in NamedSsids :
            (Len(TenMinuteSignals(ssid)) >= 10 /\ HighVarianceLowMean(TenMinuteSignals(ssid)))
                => \E i \in EmittedFor(SignalReason, ssid) : alerts[i].threat_score = 6

\* the trailing 10 minutes hold exactly 10 samples of ssid, 10% and 90% in turn
AlternatingTenNinety(ssid) ==
    LET signals == TenMinuteSignals(ssid)
    IN /\ Len(signals) = 10
       /\ \A i \in 1..10 : signals[i] \in {10, 90}
       /\ \A i \in 1..9 : signals[i] # signals[i + 1]

\* C9 as claimed: a tick on 10 samples of one SSID alternating between 10% and 90%
\* within 10 minutes emits a Signal Interference alert with score 6.
C9_AlternatingEmits ==
    \A ssid \in NamedSsids :
        (obs.step = "tick" /\ AlternatingTenNinety(ssid)) =>
            \E i \in EmittedFor(SignalReason, ssid) : alerts[i].threat_score = 6

\* C9 as amended: such a tick emits no Signal Interference alert for that SSID
\* (the mean is exactly 50).
C9_AlternatingMeanIsFifty ==
    \A ssid \in NamedSsids :
        (obs.step = "tick" /\ AlternatingTenNinety(ssid)) =>
            EmittedFor(SignalReason, ssid) = {}

\* such a tick whose analysis ran (the history held 2 events at least)
C9_Witness ==
    /\ obs.step = "tick"
    /\ AlternatingTenNinety("Cafe")
    /\ analysis_runs(obs.h0)
    /\ Len(obs.s0) = 11

C11_NoRefireOnSameCluster ==
    (obs.step = "tick" /\ obs.after_rapid) => Emitted(RapidReason) = {}

\* the tick after a firing tick ran its detectors on the events the clear had
\* left, one of them exactly at the cutoff of the firing tick
C11_Witness ==
    /\ obs.step = "tick"
    /\ obs.after_rapid
    /\ analysis_runs(obs.h0)
    /\ \E i \in DOMAIN obs.h0 :
          obs.h0[i].timestamp = obs.time - 15 - suspicious_window_minutes * 60

\* the history holds exactly 4 disconnects of "Office" recorded within 3 minutes,
\* each after a 10 s connection at signal 80%, the last at most 15 s before clock t
FourOfficeDisconnects(dh, t) ==
    /\ Len(dh) = 4
    /\ \A i \in 1..4 : /\ dh[i].ssid = "Office"
                         /\ dh[i].last_signal = 80
                         /\ dh[i].connection_duration = 10
    /\ dh[4].timestamp - dh[1].timestamp <= 180
    /\ \A i \in 1..3 : dh[i].timestamp < dh[i + 1].timestamp
    /\ t - dh[4].timestamp \in 0..15

TemporalReason == "Automated attack pattern detected"

\* the events of dh in the trailing 2 hours of the most recent tick
TwoHourEvents(dh) == SelectSeq(dh, LAMBDA d : d.timestamp > obs.time - 2 * 3600)

\* at least 4 events in the trailing 2 hours, the mean absolute deviation of the
\* intervals between consecutive ones from their average below 30 s and the
\* average below 600 s (n intervals, which add up to last minus first)
RegularCadence(dh) ==
    LET r == TwoHourEvents(dh)
        n == Len(r) - 1
        total == r[Len(r)].timestamp - r[1].timestamp
        deviation(i) == Abs(n * (r[i + 1].timestamp - r[i].timestamp) - total)
        RECURSIVE Sum(_)
        Sum(i) == IF i = 0 THEN 0 ELSE deviation(i) + Sum(i - 1)
    IN /\ Len(r) >= 4
       /\ Sum(n) < 30 * n * n
       /\ total < 600 * n

\* the events of dh are exactly 5, the consecutive ones this many seconds apart
FiveApart(dh, gaps) ==
    /\ Len(dh) = 5
    /\ \A i \in 1..4 : dh[i + 1].timestamp - dh[i].timestamp = gaps[i]

OneTemporalAlert ==
    /\ Cardinality(EmittedFor(TemporalReason, None)) = 1
    /\ \A a \in Emitted(TemporalReason) : a.threat_score = 8

\* C13 as claimed: a tick emits one Temporal Regularity alert with score 8 if and
\* only if the events in the trailing 2 hours at its start are 4 at least with a
\* regular cadence; otherwise it emits none.
C13_TemporalIffRegular ==
    obs.step = "tick" =>
        IF RegularCadence(obs.h0) THEN OneTemporalAlert
        ELSE Emitted(TemporalReason) = {}

\* C13 as amended: the events measured are those the Rapid Disconnect step of the
\* tick left in the history, which is the history after the tick; 5 disconnects
\* 300 s apart fire the detector and 5 disconnects 50, 900, 120, 700 s apart do
\* not.
C13_TemporalAfterRapid ==
    obs.step = "tick" =>
        /\ IF RegularCadence(disconnect_history) THEN OneTemporalAlert
           ELSE Emitted(TemporalReason) = {}
        /\ FiveApart(obs.h0, <<300, 300, 300, 300>>) => OneTemporalAlert
        /\ FiveApart(obs.h0, <<50, 900, 120, 700>>) => Emitted(TemporalReason) = {}

\* a tick on 5 disconnects 300 s apart, the last one at the clock of the tick
C13_Witness ==
    /\ obs.step = "tick"
    /\ FiveApart(obs.h0, <<300, 300, 300, 300>>)
    /\ obs.h0[5].timestamp = obs.time
    /\ OneTemporalAlert

-----------------------------------------------------------------------------
(* Properties of one scored disconnect, checked under SpecScore *)

\* the disconnect the most recent step scored: the event it appended, and the
\* duration the loop measured for it
Scored == disconnect_history[Len(disconnect_history)]

\* the signals sampled for ssid in the 2 minutes before clock t, in order
TwoMinuteSignals(sh, ssid, t) ==
    LET mine == SelectSeq(sh, LAMBDA x : x.timestamp > t - 120 /\ x.ssid = ssid)
    IN [i \in DOMAIN mine |-> mine[i].signal]

\* two of them lie more than 30 points apart
SpreadOverThirty(signals) ==
    \E i, j \in DOMAIN signals : signals[i] - signals[j] > 30

HighRiskReason == "High-risk disconnect pattern"
BriefReason == "Rapid disconnect after brief connection"

\* C14: a newly scored disconnect emits one high-risk alert when its score is 7
\* or more, otherwise one brief-connection alert when its duration is under 30 s
\* and its score is 5 or more, otherwise nothing; a single disconnect after 1800 s
\* at a steady signal of 20% at 14:00 scores 0 and emits nothing.
C14_OneImmediateAlert ==
    (obs.step = "score" /\ obs.appended = 1) =>
        /\ alerts =
              (IF Scored.threat_score >= 7
               THEN <<Alert(HighRiskReason, Scored.threat_score, Scored.ssid, 0)>>
               ELSE IF Scored.connection_duration < 30 /\ Scored.threat_score >= 5
               THEN <<Alert(BriefReason, Scored.threat_score, Scored.ssid, 0)>>
               ELSE <<>>)
        /\ (/\ obs.h0 = <<>>
            /\ Scored.connection_duration = 1800
            /\ Scored.last_signal = 20
            /\ ~SpreadOverThirty(TwoMinuteSignals(obs.s0, Scored.ssid, obs.time))
            /\ Hour(obs.time) = 14)
              => (Scored.threat_score = 0 /\ alerts = <<>>)

\* a disconnect after less than 30 s scored 6 (below 7) and emitted the
\* brief-connection alert
C14_Witness ==
    /\ obs.step = "score"
    /\ obs.appended = 1
    /\ Scored.threat_score = 6
    /\ Scored.connection_duration = 29
    /\ Len(alerts) = 1
    /\ alerts[1].reason = BriefReason

(* C15: the six factors of the score, from the disconnect scored and the stores
   as they were when it was scored *)

LocalHour == (obs.time % 86400) \div 3600

RecentBefore == Within(obs.h0, obs.time, 300)

SameSsidBefore == {i \in RecentBefore : obs.h0[i].ssid = Scored.ssid}

DurationFactor ==
    IF Scored.connection_duration < 30 THEN 6
    ELSE IF Scored.connection_duration < 120 THEN 3 ELSE 0

FrequencyFactor ==
    IF Cardinality(RecentBefore) >= 3 THEN 8
    ELSE IF Cardinality(RecentBefore) = 2 THEN 5 ELSE 0

HourFactor == IF LocalHour < 6 \/ LocalHour > 22 THEN 2 ELSE 0

SameSsidFactor ==
    IF Scored.ssid # None /\ Cardinality(SameSsidBefore) >= 2 THEN 5 ELSE 0

\* a later sample of the SSID lies more than 30 points below an earlier one
DropOverThirty(signals) ==
    \E i, j \in DOMAIN signals : i < j /\ signals[i] - signals[j] > 30

RecentList(dh, t) == SelectSeq(dh, LAMBDA d : d.timestamp > t - 300)

\* call c has the declared inputs of the call the most recent step made: the
\* event (duration, last signal, SSID), the recent-disconnect list and the
\* recent-signal-drop flag
SameDeclaredInputs(c) ==
    /\ c.duration = Scored.connection_duration
    /\ c.last.signal = Scored.last_signal
    /\ c.last.ssid = Scored.ssid
    /\ RecentList(c.dh, c.t) = RecentList(obs.h0, obs.time)
    /\ _had_recent_signal_drop(c.sh, c.last.ssid, c.t)
          = _had_recent_signal_drop(obs.s0, Scored.ssid, obs.time)

ScoreOf(c) == _calculate_threat_score(c.dh, c.sh, c.last, c.duration, c.t)

\* C16 as claimed: every call with the declared inputs of the scored call returns
\* the score of the scored call, whatever else differs.
C16_SameInputsSameScore ==
    obs.step = "score" =>
        \A c \in ScoreCalls :
            SameDeclaredInputs(c) => ScoreOf(c) = Scored.threat_score

\* C16 as amended: every call with the declared inputs of the scored call, made
\* in the same local hour of the day, returns the score of the scored call.
C16_SameInputsAndHourSameScore ==
    obs.step = "score" =>
        \A c \in ScoreCalls :
            (SameDeclaredInputs(c) /\ (c.t % 86400) \div 3600 = LocalHour)
                => ScoreOf(c) = Scored.threat_score

\* a call scored below the cap whose declared inputs and hour are those of another
\* call, on another disconnect history, signal history and clock
C16_Witness ==
    /\ obs.step = "score"
    /\ Scored.threat_score \in 1..9
    /\ RecentList(obs.h0, obs.time) # <<>>
    /\ \E c \in ScoreCalls :
          /\ SameDeclaredInputs(c)
          /\ (c.t % 86400) \div 3600 = LocalHour
          /\ c.dh # obs.h0
          /\ c.t # obs.time

-----------------------------------------------------------------------------
(* Properties of a loop iteration on recorded stores, checked under SpecStep *)

\* the place of an alert in the order immediate, rapid-disconnect,
\* temporal-regularity, network-targeting, signal-interference
OrderOf(reason) ==
    CASE reason \in {HighRiskReason, BriefReason} -> 1
      [] reason = RapidReason -> 2
      [] reason = TemporalReason -> 3
      [] reason = NetworkReason -> 4
      [] reason = SignalReason -> 5

\* C17: the alerts of one loop iteration come in the order immediate,
\* rapid-disconnect, temporal-regularity, network-targeting, signal-interference,
\* with one immediate alert at most and no detection (a reason, for an SSID)
\* emitted twice.
C17_FixedOrderOncePerTick ==
    obs.step = "iter" =>
        /\ \A i, j \in DOMAIN alerts :
              i < j => /\ OrderOf(alerts[i].reason) <= OrderOf(alerts[j].reason)
                       /\ ~(/\ alerts[i].reason = alerts[j].reason
                            /\ alerts[i].ssid = alerts[j].ssid)
        /\ Cardinality({i \in DOMAIN alerts : OrderOf(alerts[i].reason) = 1}) <= 1

\* an iteration that emitted an alert of each of the five kinds
C17_Witness ==
    /\ obs.step = "iter"
    /\ obs.appended = 1
    /\ obs.ticked
    /\ Len(alerts) = 5
    /\ \A i \in 1..5 : OrderOf(alerts[i].reason) = i

-----------------------------------------------------------------------------
(* Properties of the threads, checked under SpecStop and SpecThreads *)

\* C19: once stop_monitoring has been called (start_monitoring is not called in
\* SpecStop), the iteration in progress is not cut short, no further iteration
\* is entered, and the loop eventually terminates.
C19_StopsAfterCurrentIteration ==
    /\ [][/\ pc \in {"body", "appended", "analysis"} => pc' # "idle"
          /\ ~is_monitoring => ~(pc = "loop" /\ pc' = "body")]_vars
    /\ (~is_monitoring) ~> (pc = "idle")

\* the loop has terminated, and the last step of its last iteration ran after
\* stop_monitoring had been called
C19_Witness ==
    /\ pc = "idle"
    /\ ~is_monitoring
    /\ obs.step = "analysed"
    /\ obs.stopped

\* C20: every result of get_recent_events is the result of a whole call at the
\* reader's clock on a state the disconnect history had between whole
\* append-and-prune or clear operations during the call.
C20_ReadsSeeWholeOperations ==
    reader.pc = "done" =>
        reader.result \in {get_recent_events(dh, reader.clock) : dh \in reader.whole}

-----------------------------------------------------------------------------
(* Properties of a scored disconnect and the next analysis, checked under    *)
(* SpecRecord *)

\* the disconnect scored before the analysis of the most recent step
ScoredBefore == obs.h0[Len(obs.h0)]

\* C21: a disconnect whose last status has no SSID is recorded and scored without
\* a fault, its score is the capped sum of the duration, signal, frequency and
\* hour factors alone, and the next analysis emits no Network Targeting alert for
\* an absent SSID and counts for every SSID it names only the events of that SSID.
C21_NoSsidScoredAndNotCounted ==
    /\ (obs.step = "score" /\ obs.prev.ssid = None) =>
          /\ obs.appended = 1
          /\ ~obs.faulted
          /\ Scored.ssid = None
          /\ LET s == IF Scored.last_signal > 70 THEN 4
                      ELSE IF Scored.last_signal > 50 THEN 2 ELSE 0
                 sum == DurationFactor + s + FrequencyFactor + HourFactor
             IN Scored.threat_score = (IF sum > 10 THEN 10 ELSE sum)
    /\ obs.step = "follow" =>
          /\ ~obs.faulted
          /\ EmittedFor(NetworkReason, None) = {}
          /\ \A i \in DOMAIN alerts :
                alerts[i].reason = NetworkReason =>
                    alerts[i].n = HourCount(disconnect_history, alerts[i].ssid)

\* a disconnect without SSID was scored 5 (the frequency factor alone) after two
\* disconnects without SSID in the trailing 5 minutes and six samples without
\* SSID 70 points apart in the trailing 2 minutes, and the next analysis found
\* three disconnects without SSID in the trailing hour
C21_Witness ==
    /\ obs.step = "follow"
    /\ ScoredBefore.ssid = None
    /\ ScoredBefore.threat_score = 5
    /\ Len(signal_history) >= 5
    /\ \A i \in DOMAIN signal_history : signal_history[i].ssid = None
    /\ HourCount(disconnect_history, None) >= 3

-----------------------------------------------------------------------------
(* Properties of the DeauthDetectionIntegration, checked under SpecNotify *)

\* the new-attacker notifications sent for mac since the last reset
SentFor(mac) == {i \in DOMAIN integration.sent : integration.sent[i].mac = mac}

DetectedOf(mac) == {i \in DOMAIN integration.detected : integration.detected[i] = mac}

\* C23: between two resets, whatever on_deauth_detected calls and notification
\* toggles are made, at most one new-attacker notification is sent per attacker
\* MAC address.
C23_OneNotificationPerAttacker ==
    \A mac \in Macs : Cardinality(SentFor(mac)) <= 1

\* since the last reset an attacker was detected at least twice, once with
\* notifications switched off by a toggle, and one notification was sent for it
C23_Witness ==
    \E mac \in Macs :
        /\ Cardinality(DetectedOf(mac)) >= 2
        /\ Cardinality(SentFor(mac)) = 1
        /\ integration.toggles >= 2
        /\ integration.calls = Len(integration.detected)
        /\ integration.muted

\* C24: a call of on_deauth_detected made while notifications are disabled sends
\* no notification, increases the attack count by one and invokes every
\* registered callback.
C24_DisabledCountsAndCallsBack ==
    [][(integration'.calls = integration.calls + 1 /\ ~integration.enabled) =>
          /\ integration'.sent = integration.sent
          /\ integration'.known_attackers = integration.known_attackers
          /\ integration'.attack_count = integration.attack_count + 1
          /\ integration'.called = integration.detection_callbacks]_vars

\* a call found notifications switched off although plyer is available, sent
\* nothing, was counted and invoked both registered callbacks
C24_Witness ==
    /\ integration.muted
    /\ integration.plyer_available
    /\ integration.sent = <<>>
    /\ integration.attack_count = Len(integration.detected)
    /\ integration.attack_count >= 1
    /\ Len(integration.called) = 2

-----------------------------------------------------------------------------
(* Properties of the WindowsWiFiMonitor, checked under SpecWindows *)

\* the events of the history the most recent get_recent_events was called on
\* that were less than one hour old at its clock
WithinHour == {i \in DOMAIN windows.h0 :
                  windows.clock - windows.h0[i].timestamp < 3600}

\* C25: get_recent_events returns one entry for every event of the history that
\* is less than one hour old, and for no other, in the order of the history, each
\* entry with the formatted timestamp, the SSID and the state of its event, and
\* leaves the history as it was.
C25_OneEntryPerRecentEvent ==
    windows.step = "read" =>
        /\ Len(windows.events) = Cardinality(WithinHour)
        /\ \A i \in WithinHour :
              LET entry == windows.events[Cardinality({j \in WithinHour : j <= i})]
                  d == windows.h0[i]
              IN /\ entry.timestamp = Strftime(d.timestamp)
                 /\ entry.ssid = d.ssid
                 /\ entry.state = d.state
        /\ windows.disconnect_history = windows.h0

\* a call on a history of three events, the first of them exactly one hour old,
\* returned the other two
C25_Witness ==
    /\ windows.step = "read"
    /\ Len(windows.h0) = 3
    /\ windows.clock - windows.h0[1].timestamp = 3600
    /\ Len(windows.events) = 2
    /\ windows.events[1].timestamp # windows.events[2].timestamp

-----------------------------------------------------------------------------
(* Further properties of a tick, checked under SpecTick *)

\* the stores at the start of the most recent tick, with nothing else remembered
TickMemory == Memory(obs.h0, obs.s0, NoTime, 0, _get_default_status, 0)

\* C26: a tick leaves the signal history as it was and changes the disconnect
\* history only by the Rapid Disconnect clear; when Rapid Disconnect does not fire
\* both stores stay as they were; the other three detectors leave both stores as
\* they were; and the outcome of the tick is that of the stores and the clock
\* alone.
C26_TickChangesOnlyByRapidClear ==
    obs.step = "tick" =>
        /\ signal_history = obs.s0
        /\ disconnect_history =
              (IF Emitted(RapidReason) = {} THEN obs.h0
               ELSE SelectSeq(obs.h0, LAMBDA d : d.timestamp <= RapidCutoff))
        /\ \A name \in Detectors \ {"rapid"} :
              LET after == RunDetector(name, TickMemory, obs.time)
              IN after.dh = obs.h0 /\ after.sh = obs.s0
        /\ LET again == _enhanced_pattern_analysis(TickMemory, obs.time)
           IN /\ again.dh = disconnect_history
              /\ again.sh = signal_history
              /\ again.out = alerts

\* a tick in which Temporal Regularity and Network Targeting fired and Rapid
\* Disconnect did not left a history of five events as it was
C26_Witness ==
    /\ obs.step = "tick"
    /\ Emitted(RapidReason) = {}
    /\ Emitted(TemporalReason) # {}
    /\ Emitted(NetworkReason) # {}
    /\ Len(obs.h0) >= 5
    /\ disconnect_history = obs.h0

\* C28: a tick that starts with fewer than 2 events in the disconnect history
\* emits no alert and leaves both stores as they were, whatever the signal
\* history holds.
C28_FewerThanTwoEventsDoesNothing ==
    (obs.step = "tick" /\ Len(obs.h0) < 2) =>
        /\ alerts = <<>>
        /\ disconnect_history = obs.h0
        /\ signal_history = obs.s0

\* a tick that started with one event emitted nothing although the signal
\* history alone makes the Signal Interference detector fire
C28_Witness ==
    /\ obs.step = "tick"
    /\ Len(obs.h0) = 1
    /\ Len(obs.s0) >= 10
    /\ RunDetector("signal", TickMemory, obs.time).out # <<>>
    /\ alerts = <<>>
    /\ disconnect_history = obs.h0
    /\ signal_history = obs.s0

-----------------------------------------------------------------------------
(* Further properties of one scored disconnect, checked under SpecScore *)

\* C29: a disconnect whose connection lasted under 30 seconds scores at least 6
\* and emits exactly one immediate alert, whatever its signal, hour and history:
\* the high-risk alert when the score is 7 or more, the brief-connection alert
\* when it is 6.
C29_ShortConnectionAlwaysAlerts ==
    (obs.step = "score" /\ obs.appended = 1 /\ Scored.connection_duration < 30) =>
        /\ Scored.threat_score >= 6
        /\ Len(alerts) = 1
        /\ alerts[1].threat_score = Scored.threat_score
        /\ alerts[1].reason =
              (IF Scored.threat_score >= 7 THEN HighRiskReason ELSE BriefReason)

\* a disconnect after 10 s with other disconnects in the last 5 minutes scored 10
\* and emitted the high-risk alert alone
C29_Witness ==
    /\ obs.step = "score"
    /\ obs.appended = 1
    /\ Scored.connection_duration = 10
    /\ obs.h0 # <<>>
    /\ Scored.threat_score = 10
    /\ Len(alerts) = 1
    /\ alerts[1].reason = HighRiskReason

\* what the duration, the last signal, the hour and the signal drop add to the
\* score of the disconnect scored
OtherFactors ==
    LET signals == TwoMinuteSignals(obs.s0, Scored.ssid, obs.time)
        s == IF Scored.last_signal > 70 THEN 4
             ELSE IF Scored.last_signal > 50 THEN 2 ELSE 0
        p == IF Scored.ssid # None /\ Len(signals) >= 5 /\ SpreadOverThirty(signals)
             THEN 6 ELSE 0
    IN DurationFactor + s + HourFactor + p

\* C30: a disconnect is scored on the history as it was before the disconnect
\* was appended, so it is not counted in its own frequency or same-SSID factor:
\* with no other event, or with one other event, in the trailing 5 minutes both
\* factors add 0; and whenever the same-SSID factor adds its 5 points the
\* frequency factor adds at least 5, which brings the score to 10.
C30_ScoredBeforeAppended ==
    (obs.step = "score" /\ obs.appended = 1) =>
        /\ disconnect_history = prune_disconnect_history(Append(obs.h0, Scored), obs.time)
        /\ Scored.timestamp = obs.time
        /\ Scored.threat_score =
              Min(10, OtherFactors + FrequencyFactor + SameSsidFactor)
        /\ Cardinality(RecentBefore) <= 1 => Scored.threat_score = Min(10, OtherFactors)
        /\ SameSsidFactor = 5 => (FrequencyFactor >= 5 /\ Scored.threat_score = 10)

\* a disconnect of the SSID of the one other event of the trailing 5 minutes,
\* after 1800 s at signal 20% at 14:00, scored 0: with itself counted there would
\* be two recent events of its SSID
C30_Witness ==
    /\ obs.step = "score"
    /\ obs.appended = 1
    /\ Cardinality(RecentBefore) = 1
    /\ Cardinality(SameSsidBefore) = 1
    /\ Scored.ssid = "Office"
    /\ Scored.connection_duration = 1800
    /\ Scored.threat_score = 0
    /\ alerts = <<>>

-----------------------------------------------------------------------------
(* Properties of start_monitoring and stop_monitoring, checked under        *)
(* SpecRestart                                                              *)

\* the threads that have read the flag up and are inside an iteration of the
\* loop: sleeping, sampling or writing to the stores
InLoopBody == {i \in DOMAIN threads : threads[i].pc = "body"}

\* C27: whatever the order of the start_monitoring and stop_monitoring calls,
\* at most one monitor loop thread is inside an iteration of the loop, sampling
\* and writing to the stores, at any time.
C27_SingleWriter == Cardinality(InLoopBody) <= 1

\* a call of start_monitoring made while the flag is up starts no thread
StartWhileMonitoringStartsNone ==
    [][(is_monitoring /\ iter' = iter + 1) => threads' = threads]_vars

====
